---------------------------- MODULE Spec2Model ----------------------------
(***************************************************************************)
(* A model of the PDF toolbox of src/main.py: the page-range parser, the   *)
(* image conversion run by a PdfWorker thread under the pause / resume /   *)
(* stop calls of the UI thread, the merge of several documents, the split  *)
(* of one document, the resolution of output paths, and the execute        *)
(* button of the main window.  Each operation has its own specification;   *)
(* the variables of the other operations stay at their idle values.        *)
(*                                                                         *)
(* A Python string is a sequence of one-character strings, so that         *)
(* "1-end" is <<"1", "-", "e", "n", "d">>.                                 *)
(***************************************************************************)
EXTENDS Integers, Sequences, FiniteSets, TLC

(***************************************************************************)
(* Bounds of the model.                                                    *)
(***************************************************************************)
MaxFiles == 2
MaxPages == 2

(***************************************************************************)
(* Python string helpers used by _parse_page_ranges.                       *)
(***************************************************************************)
\* A string is a sequence of characters.  An ASCII character is written as
\* itself; the character of a code point n above 127 is written Chr(n), n
\* in decimal: Chr(1777) is '\u06f1' and Chr(12288) is '\u3000'.  The grave
\* accent, which a string of this language cannot hold, is Chr(96).
Chr(n) == "chr(" \o ToString(n) \o ")"

Digits == <<"0", "1", "2", "3", "4", "5", "6", "7", "8", "9">>

\* the code points of the digit zero of every script but ASCII (Unicode
\* category Nd); the digits 1 to 9 of the script follow their zero
NdZeros ==
    {1632, 1776, 1984, 2406, 2534, 2662, 2790, 2918, 3046, 3174, 3302,
     3430, 3558, 3664, 3792, 3872, 4160, 4240, 6112, 6160, 6470, 6608,
     6784, 6800, 6992, 7088, 7232, 7248, 42528, 43216, 43264, 43472,
     43504, 43600, 44016, 65296, 66720, 68912, 69734, 69872, 69942,
     70096, 70384, 70736, 70864, 71248, 71360, 71472, 71904, 72016,
     72784, 73040, 73120, 92768, 92864, 93008, 120782, 120792, 120802,
     120812, 120822, 123200, 123632, 125264, 130032}

UnicodeDigits == {Chr(z + d) : z \in NdZeros, d \in 0..9}

UnicodeDigitVal ==
    [c \in UnicodeDigits |-> CHOOSE d \in 0..9 : \E z \in NdZeros : c = Chr(z + d)]

\* a character int() takes for a digit: a decimal digit of any script
IsDigit(c) == (\E i \in 1..10 : Digits[i] = c) \/ c \in UnicodeDigits

DigitVal(c) ==
    IF c \in UnicodeDigits THEN UnicodeDigitVal[c]
    ELSE (CHOOSE i \in 1..10 : Digits[i] = c) - 1

\* the white space above ASCII: \x85, \xa0, \u1680, \u2000-\u200a, \u2028,
\* \u2029, \u202f, \u205f and \u3000
UnicodeSpaces ==
    {Chr(n) : n \in {133, 160, 5760, 8232, 8233, 8239, 8287, 12288} \cup (8192..8202)}

\* the characters str.strip() removes: space, \t, \n, \x0b, \f, \r,
\* \x1c..\x1f and the white space above ASCII
IsSpace(c) ==
    \/ c \in {" ", "\t", "\n", "", "\f", "\r", "", "", "", ""}
    \/ c \in UnicodeSpaces

\* the characters int() removes around the digits: the same without the
\* separators \x1c..\x1f
IsIntSpace(c) == IsSpace(c) /\ c \notin {"", "", "", ""}

\* str.lower() above ASCII, from the Unicode database of the interpreter
\* (Unicode 14.0): the pairs of a character and its lower case.  A range
\* <<first, last, step, delta>> stands for the code points first,
\* first + step, ..., last, each of which lowers to itself plus delta;
\* '\u0130' alone lowers to two characters, 'i' and '\u0307', and the
\* Kelvin sign '\u212a' alone to an ASCII letter, 'k'.
LowerPairs ==
    LET ranges ==
          { <<192, 214, 1, 32>>, <<216, 222, 1, 32>>, <<256, 302, 2, 1>>,
            <<306, 310, 2, 1>>, <<313, 327, 2, 1>>, <<330, 374, 2, 1>>,
            <<376, 376, 1, -121>>, <<377, 381, 2, 1>>, <<385, 385, 1, 210>>,
            <<386, 388, 2, 1>>, <<390, 390, 1, 206>>, <<391, 391, 1, 1>>,
            <<393, 394, 1, 205>>, <<395, 395, 1, 1>>, <<398, 398, 1, 79>>,
            <<399, 399, 1, 202>>, <<400, 400, 1, 203>>, <<401, 401, 1, 1>>,
            <<403, 403, 1, 205>>, <<404, 404, 1, 207>>, <<406, 406, 1, 211>>,
            <<407, 407, 1, 209>>, <<408, 408, 1, 1>>, <<412, 412, 1, 211>>,
            <<413, 413, 1, 213>>, <<415, 415, 1, 214>>, <<416, 420, 2, 1>>,
            <<422, 422, 1, 218>>, <<423, 423, 1, 1>>, <<425, 425, 1, 218>>,
            <<428, 428, 1, 1>>, <<430, 430, 1, 218>>, <<431, 431, 1, 1>>,
            <<433, 434, 1, 217>>, <<435, 437, 2, 1>>, <<439, 439, 1, 219>>,
            <<440, 440, 1, 1>>, <<444, 444, 1, 1>>, <<452, 452, 1, 2>>,
            <<453, 453, 1, 1>>, <<455, 455, 1, 2>>, <<456, 456, 1, 1>>,
            <<458, 458, 1, 2>>, <<459, 475, 2, 1>>, <<478, 494, 2, 1>>,
            <<497, 497, 1, 2>>, <<498, 500, 2, 1>>, <<502, 502, 1, -97>>,
            <<503, 503, 1, -56>>, <<504, 542, 2, 1>>, <<544, 544, 1, -130>>,
            <<546, 562, 2, 1>>, <<570, 570, 1, 10795>>, <<571, 571, 1, 1>>,
            <<573, 573, 1, -163>>, <<574, 574, 1, 10792>>,
            <<577, 577, 1, 1>>, <<579, 579, 1, -195>>, <<580, 580, 1, 69>>,
            <<581, 581, 1, 71>>, <<582, 590, 2, 1>>, <<880, 882, 2, 1>>,
            <<886, 886, 1, 1>>, <<895, 895, 1, 116>>, <<902, 902, 1, 38>>,
            <<904, 906, 1, 37>>, <<908, 908, 1, 64>>, <<910, 911, 1, 63>>,
            <<913, 929, 1, 32>>, <<931, 939, 1, 32>>, <<975, 975, 1, 8>>,
            <<984, 1006, 2, 1>>, <<1012, 1012, 1, -60>>,
            <<1015, 1015, 1, 1>>, <<1017, 1017, 1, -7>>,
            <<1018, 1018, 1, 1>>, <<1021, 1023, 1, -130>>,
            <<1024, 1039, 1, 80>>, <<1040, 1071, 1, 32>>,
            <<1120, 1152, 2, 1>>, <<1162, 1214, 2, 1>>,
            <<1216, 1216, 1, 15>>, <<1217, 1229, 2, 1>>,
            <<1232, 1326, 2, 1>>, <<1329, 1366, 1, 48>>,
            <<4256, 4293, 1, 7264>>, <<4295, 4295, 1, 7264>>,
            <<4301, 4301, 1, 7264>>, <<5024, 5103, 1, 38864>>,
            <<5104, 5109, 1, 8>>, <<7312, 7354, 1, -3008>>,
            <<7357, 7359, 1, -3008>>, <<7680, 7828, 2, 1>>,
            <<7838, 7838, 1, -7615>>, <<7840, 7934, 2, 1>>,
            <<7944, 7951, 1, -8>>, <<7960, 7965, 1, -8>>,
            <<7976, 7983, 1, -8>>, <<7992, 7999, 1, -8>>,
            <<8008, 8013, 1, -8>>, <<8025, 8031, 2, -8>>,
            <<8040, 8047, 1, -8>>, <<8072, 8079, 1, -8>>,
            <<8088, 8095, 1, -8>>, <<8104, 8111, 1, -8>>,
            <<8120, 8121, 1, -8>>, <<8122, 8123, 1, -74>>,
            <<8124, 8124, 1, -9>>, <<8136, 8139, 1, -86>>,
            <<8140, 8140, 1, -9>>, <<8152, 8153, 1, -8>>,
            <<8154, 8155, 1, -100>>, <<8168, 8169, 1, -8>>,
            <<8170, 8171, 1, -112>>, <<8172, 8172, 1, -7>>,
            <<8184, 8185, 1, -128>>, <<8186, 8187, 1, -126>>,
            <<8188, 8188, 1, -9>>, <<8486, 8486, 1, -7517>>,
            <<8491, 8491, 1, -8262>>,
            <<8498, 8498, 1, 28>>, <<8544, 8559, 1, 16>>,
            <<8579, 8579, 1, 1>>, <<9398, 9423, 1, 26>>,
            <<11264, 11311, 1, 48>>, <<11360, 11360, 1, 1>>,
            <<11362, 11362, 1, -10743>>, <<11363, 11363, 1, -3814>>,
            <<11364, 11364, 1, -10727>>, <<11367, 11371, 2, 1>>,
            <<11373, 11373, 1, -10780>>, <<11374, 11374, 1, -10749>>,
            <<11375, 11375, 1, -10783>>, <<11376, 11376, 1, -10782>>,
            <<11378, 11378, 1, 1>>, <<11381, 11381, 1, 1>>,
            <<11390, 11391, 1, -10815>>, <<11392, 11490, 2, 1>>,
            <<11499, 11501, 2, 1>>, <<11506, 11506, 1, 1>>,
            <<42560, 42604, 2, 1>>, <<42624, 42650, 2, 1>>,
            <<42786, 42798, 2, 1>>, <<42802, 42862, 2, 1>>,
            <<42873, 42875, 2, 1>>, <<42877, 42877, 1, -35332>>,
            <<42878, 42886, 2, 1>>, <<42891, 42891, 1, 1>>,
            <<42893, 42893, 1, -42280>>, <<42896, 42898, 2, 1>>,
            <<42902, 42920, 2, 1>>, <<42922, 42922, 1, -42308>>,
            <<42923, 42923, 1, -42319>>, <<42924, 42924, 1, -42315>>,
            <<42925, 42925, 1, -42305>>, <<42926, 42926, 1, -42308>>,
            <<42928, 42928, 1, -42258>>, <<42929, 42929, 1, -42282>>,
            <<42930, 42930, 1, -42261>>, <<42931, 42931, 1, 928>>,
            <<42932, 42946, 2, 1>>, <<42948, 42948, 1, -48>>,
            <<42949, 42949, 1, -42307>>, <<42950, 42950, 1, -35384>>,
            <<42951, 42953, 2, 1>>, <<42960, 42960, 1, 1>>,
            <<42966, 42968, 2, 1>>, <<42997, 42997, 1, 1>>,
            <<65313, 65338, 1, 32>>, <<66560, 66599, 1, 40>>,
            <<66736, 66771, 1, 40>>, <<66928, 66938, 1, 39>>,
            <<66940, 66954, 1, 39>>, <<66956, 66962, 1, 39>>,
            <<66964, 66965, 1, 39>>, <<68736, 68786, 1, 64>>,
            <<71840, 71871, 1, 32>>, <<93760, 93791, 1, 32>>,
            <<125184, 125217, 1, 34>> }
    IN  UNION {{<<Chr(n), <<Chr(n + r[4])>>>> :
                   n \in {m \in r[1]..r[2] : (m - r[1]) % r[3] = 0}} : r \in ranges}
            \cup {<<Chr(304), <<"i", Chr(775)>>>>, <<Chr(8490), <<"k">>>>}

\* str.lower() of one character, as a string
Lower(c) ==
    LET upper == <<"A", "B", "C", "D", "E", "F", "G", "H", "I", "J", "K", "L", "M",
                   "N", "O", "P", "Q", "R", "S", "T", "U", "V", "W", "X", "Y", "Z">>
        lower == <<"a", "b", "c", "d", "e", "f", "g", "h", "i", "j", "k", "l", "m",
                   "n", "o", "p", "q", "r", "s", "t", "u", "v", "w", "x", "y", "z">>
    IN  IF \E i \in 1..26 : upper[i] = c
        THEN <<lower[CHOOSE i \in 1..26 : upper[i] = c]>>
        ELSE IF \E p \in LowerPairs : p[1] = c
             THEN (CHOOSE p \in LowerPairs : p[1] = c)[2]
             ELSE <<c>>

\* the characters str.lower() skips when it looks for the letters around a
\* capital sigma (the Unicode property Case_Ignorable), above ASCII as
\* ranges <<first, last>> of code points
CaseIgnorable ==
    LET ranges ==
          { <<168, 168>>, <<173, 173>>, <<175, 175>>, <<180, 180>>,
            <<183, 184>>, <<688, 879>>, <<884, 885>>, <<890, 890>>,
            <<900, 901>>, <<903, 903>>, <<1155, 1161>>, <<1369, 1369>>,
            <<1375, 1375>>, <<1425, 1469>>, <<1471, 1471>>, <<1473, 1474>>,
            <<1476, 1477>>, <<1479, 1479>>, <<1524, 1524>>, <<1536, 1541>>,
            <<1552, 1562>>, <<1564, 1564>>, <<1600, 1600>>, <<1611, 1631>>,
            <<1648, 1648>>, <<1750, 1757>>, <<1759, 1768>>, <<1770, 1773>>,
            <<1807, 1807>>, <<1809, 1809>>, <<1840, 1866>>, <<1958, 1968>>,
            <<2027, 2037>>, <<2042, 2042>>, <<2045, 2045>>, <<2070, 2093>>,
            <<2137, 2139>>, <<2184, 2184>>, <<2192, 2193>>, <<2200, 2207>>,
            <<2249, 2306>>, <<2362, 2362>>, <<2364, 2364>>, <<2369, 2376>>,
            <<2381, 2381>>, <<2385, 2391>>, <<2402, 2403>>, <<2417, 2417>>,
            <<2433, 2433>>, <<2492, 2492>>, <<2497, 2500>>, <<2509, 2509>>,
            <<2530, 2531>>, <<2558, 2558>>, <<2561, 2562>>, <<2620, 2620>>,
            <<2625, 2626>>, <<2631, 2632>>, <<2635, 2637>>, <<2641, 2641>>,
            <<2672, 2673>>, <<2677, 2677>>, <<2689, 2690>>, <<2748, 2748>>,
            <<2753, 2757>>, <<2759, 2760>>, <<2765, 2765>>, <<2786, 2787>>,
            <<2810, 2815>>, <<2817, 2817>>, <<2876, 2876>>, <<2879, 2879>>,
            <<2881, 2884>>, <<2893, 2893>>, <<2901, 2902>>, <<2914, 2915>>,
            <<2946, 2946>>, <<3008, 3008>>, <<3021, 3021>>, <<3072, 3072>>,
            <<3076, 3076>>, <<3132, 3132>>, <<3134, 3136>>, <<3142, 3144>>,
            <<3146, 3149>>, <<3157, 3158>>, <<3170, 3171>>, <<3201, 3201>>,
            <<3260, 3260>>, <<3263, 3263>>, <<3270, 3270>>, <<3276, 3277>>,
            <<3298, 3299>>, <<3328, 3329>>, <<3387, 3388>>, <<3393, 3396>>,
            <<3405, 3405>>, <<3426, 3427>>, <<3457, 3457>>, <<3530, 3530>>,
            <<3538, 3540>>, <<3542, 3542>>, <<3633, 3633>>, <<3636, 3642>>,
            <<3654, 3662>>, <<3761, 3761>>, <<3764, 3772>>, <<3782, 3782>>,
            <<3784, 3789>>, <<3864, 3865>>, <<3893, 3893>>, <<3895, 3895>>,
            <<3897, 3897>>, <<3953, 3966>>, <<3968, 3972>>, <<3974, 3975>>,
            <<3981, 3991>>, <<3993, 4028>>, <<4038, 4038>>, <<4141, 4144>>,
            <<4146, 4151>>, <<4153, 4154>>, <<4157, 4158>>, <<4184, 4185>>,
            <<4190, 4192>>, <<4209, 4212>>, <<4226, 4226>>, <<4229, 4230>>,
            <<4237, 4237>>, <<4253, 4253>>, <<4348, 4348>>, <<4957, 4959>>,
            <<5906, 5908>>, <<5938, 5939>>, <<5970, 5971>>, <<6002, 6003>>,
            <<6068, 6069>>, <<6071, 6077>>, <<6086, 6086>>, <<6089, 6099>>,
            <<6103, 6103>>, <<6109, 6109>>, <<6155, 6159>>, <<6211, 6211>>,
            <<6277, 6278>>, <<6313, 6313>>, <<6432, 6434>>, <<6439, 6440>>,
            <<6450, 6450>>, <<6457, 6459>>, <<6679, 6680>>, <<6683, 6683>>,
            <<6742, 6742>>, <<6744, 6750>>, <<6752, 6752>>, <<6754, 6754>>,
            <<6757, 6764>>, <<6771, 6780>>, <<6783, 6783>>, <<6823, 6823>>,
            <<6832, 6862>>, <<6912, 6915>>, <<6964, 6964>>, <<6966, 6970>>,
            <<6972, 6972>>, <<6978, 6978>>, <<7019, 7027>>, <<7040, 7041>>,
            <<7074, 7077>>, <<7080, 7081>>, <<7083, 7085>>, <<7142, 7142>>,
            <<7144, 7145>>, <<7149, 7149>>, <<7151, 7153>>, <<7212, 7219>>,
            <<7222, 7223>>, <<7288, 7293>>, <<7376, 7378>>, <<7380, 7392>>,
            <<7394, 7400>>, <<7405, 7405>>, <<7412, 7412>>, <<7416, 7417>>,
            <<7468, 7530>>, <<7544, 7544>>, <<7579, 7679>>, <<8125, 8125>>,
            <<8127, 8129>>, <<8141, 8143>>, <<8157, 8159>>, <<8173, 8175>>,
            <<8189, 8190>>, <<8203, 8207>>, <<8216, 8217>>, <<8228, 8228>>,
            <<8231, 8231>>, <<8234, 8238>>, <<8288, 8292>>, <<8294, 8303>>,
            <<8305, 8305>>, <<8319, 8319>>, <<8336, 8348>>, <<8400, 8432>>,
            <<11388, 11389>>, <<11503, 11505>>, <<11631, 11631>>,
            <<11647, 11647>>, <<11744, 11775>>, <<11823, 11823>>,
            <<12293, 12293>>, <<12330, 12333>>, <<12337, 12341>>,
            <<12347, 12347>>, <<12441, 12446>>, <<12540, 12542>>,
            <<40981, 40981>>, <<42232, 42237>>, <<42508, 42508>>,
            <<42607, 42610>>, <<42612, 42621>>, <<42623, 42623>>,
            <<42652, 42655>>, <<42736, 42737>>, <<42752, 42785>>,
            <<42864, 42864>>, <<42888, 42890>>, <<42994, 42996>>,
            <<43000, 43001>>, <<43010, 43010>>, <<43014, 43014>>,
            <<43019, 43019>>, <<43045, 43046>>, <<43052, 43052>>,
            <<43204, 43205>>, <<43232, 43249>>, <<43263, 43263>>,
            <<43302, 43309>>, <<43335, 43345>>, <<43392, 43394>>,
            <<43443, 43443>>, <<43446, 43449>>, <<43452, 43453>>,
            <<43471, 43471>>, <<43493, 43494>>, <<43561, 43566>>,
            <<43569, 43570>>, <<43573, 43574>>, <<43587, 43587>>,
            <<43596, 43596>>, <<43632, 43632>>, <<43644, 43644>>,
            <<43696, 43696>>, <<43698, 43700>>, <<43703, 43704>>,
            <<43710, 43711>>, <<43713, 43713>>, <<43741, 43741>>,
            <<43756, 43757>>, <<43763, 43764>>, <<43766, 43766>>,
            <<43867, 43871>>, <<43881, 43883>>, <<44005, 44005>>,
            <<44008, 44008>>, <<44013, 44013>>, <<64286, 64286>>,
            <<64434, 64450>>, <<65024, 65039>>, <<65043, 65043>>,
            <<65056, 65071>>, <<65106, 65106>>, <<65109, 65109>>,
            <<65279, 65279>>, <<65287, 65287>>, <<65294, 65294>>,
            <<65306, 65306>>, <<65342, 65342>>, <<65344, 65344>>,
            <<65392, 65392>>, <<65438, 65439>>, <<65507, 65507>>,
            <<65529, 65531>>, <<66045, 66045>>, <<66272, 66272>>,
            <<66422, 66426>>, <<67456, 67461>>, <<67463, 67504>>,
            <<67506, 67514>>, <<68097, 68099>>, <<68101, 68102>>,
            <<68108, 68111>>, <<68152, 68154>>, <<68159, 68159>>,
            <<68325, 68326>>, <<68900, 68903>>, <<69291, 69292>>,
            <<69446, 69456>>, <<69506, 69509>>, <<69633, 69633>>,
            <<69688, 69702>>, <<69744, 69744>>, <<69747, 69748>>,
            <<69759, 69761>>, <<69811, 69814>>, <<69817, 69818>>,
            <<69821, 69821>>, <<69826, 69826>>, <<69837, 69837>>,
            <<69888, 69890>>, <<69927, 69931>>, <<69933, 69940>>,
            <<70003, 70003>>, <<70016, 70017>>, <<70070, 70078>>,
            <<70089, 70092>>, <<70095, 70095>>, <<70191, 70193>>,
            <<70196, 70196>>, <<70198, 70199>>, <<70206, 70206>>,
            <<70367, 70367>>, <<70371, 70378>>, <<70400, 70401>>,
            <<70459, 70460>>, <<70464, 70464>>, <<70502, 70508>>,
            <<70512, 70516>>, <<70712, 70719>>, <<70722, 70724>>,
            <<70726, 70726>>, <<70750, 70750>>, <<70835, 70840>>,
            <<70842, 70842>>, <<70847, 70848>>, <<70850, 70851>>,
            <<71090, 71093>>, <<71100, 71101>>, <<71103, 71104>>,
            <<71132, 71133>>, <<71219, 71226>>, <<71229, 71229>>,
            <<71231, 71232>>, <<71339, 71339>>, <<71341, 71341>>,
            <<71344, 71349>>, <<71351, 71351>>, <<71453, 71455>>,
            <<71458, 71461>>, <<71463, 71467>>, <<71727, 71735>>,
            <<71737, 71738>>, <<71995, 71996>>, <<71998, 71998>>,
            <<72003, 72003>>, <<72148, 72151>>, <<72154, 72155>>,
            <<72160, 72160>>, <<72193, 72202>>, <<72243, 72248>>,
            <<72251, 72254>>, <<72263, 72263>>, <<72273, 72278>>,
            <<72281, 72283>>, <<72330, 72342>>, <<72344, 72345>>,
            <<72752, 72758>>, <<72760, 72765>>, <<72767, 72767>>,
            <<72850, 72871>>, <<72874, 72880>>, <<72882, 72883>>,
            <<72885, 72886>>, <<73009, 73014>>, <<73018, 73018>>,
            <<73020, 73021>>, <<73023, 73029>>, <<73031, 73031>>,
            <<73104, 73105>>, <<73109, 73109>>, <<73111, 73111>>,
            <<73459, 73460>>, <<78896, 78904>>, <<92912, 92916>>,
            <<92976, 92982>>, <<92992, 92995>>, <<94031, 94031>>,
            <<94095, 94111>>, <<94176, 94177>>, <<94179, 94180>>,
            <<110576, 110579>>, <<110581, 110587>>, <<110589, 110590>>,
            <<113821, 113822>>, <<113824, 113827>>, <<118528, 118573>>,
            <<118576, 118598>>, <<119143, 119145>>, <<119155, 119170>>,
            <<119173, 119179>>, <<119210, 119213>>, <<119362, 119364>>,
            <<121344, 121398>>, <<121403, 121452>>, <<121461, 121461>>,
            <<121476, 121476>>, <<121499, 121503>>, <<121505, 121519>>,
            <<122880, 122886>>, <<122888, 122904>>, <<122907, 122913>>,
            <<122915, 122916>>, <<122918, 122922>>, <<123184, 123197>>,
            <<123566, 123566>>, <<123628, 123631>>, <<125136, 125142>>,
            <<125252, 125259>>, <<127995, 127999>>, <<917505, 917505>>,
            <<917536, 917631>>, <<917760, 917999>> }
    IN  {"'", ".", ":", "^", Chr(96)}
            \cup {Chr(n) : n \in UNION {r[1]..r[2] : r \in ranges}}

\* the letters that have a case (the Unicode property Cased), above ASCII
\* as ranges <<first, last>> of code points
Cased ==
    LET ranges ==
          { <<170, 170>>, <<181, 181>>, <<186, 186>>, <<192, 214>>,
            <<216, 246>>, <<248, 442>>, <<444, 447>>, <<452, 659>>,
            <<661, 696>>, <<704, 705>>, <<736, 740>>, <<837, 837>>,
            <<880, 883>>, <<886, 887>>, <<890, 893>>, <<895, 895>>,
            <<902, 902>>, <<904, 906>>, <<908, 908>>, <<910, 929>>,
            <<931, 1013>>, <<1015, 1153>>, <<1162, 1327>>, <<1329, 1366>>,
            <<1376, 1416>>, <<4256, 4293>>, <<4295, 4295>>, <<4301, 4301>>,
            <<4304, 4346>>, <<4349, 4351>>, <<5024, 5109>>, <<5112, 5117>>,
            <<7296, 7304>>, <<7312, 7354>>, <<7357, 7359>>, <<7424, 7615>>,
            <<7680, 7957>>, <<7960, 7965>>, <<7968, 8005>>, <<8008, 8013>>,
            <<8016, 8023>>, <<8025, 8025>>, <<8027, 8027>>, <<8029, 8029>>,
            <<8031, 8061>>, <<8064, 8116>>, <<8118, 8124>>, <<8126, 8126>>,
            <<8130, 8132>>, <<8134, 8140>>, <<8144, 8147>>, <<8150, 8155>>,
            <<8160, 8172>>, <<8178, 8180>>, <<8182, 8188>>, <<8305, 8305>>,
            <<8319, 8319>>, <<8336, 8348>>, <<8450, 8450>>, <<8455, 8455>>,
            <<8458, 8467>>, <<8469, 8469>>, <<8473, 8477>>, <<8484, 8484>>,
            <<8486, 8486>>, <<8488, 8488>>, <<8490, 8493>>, <<8495, 8500>>,
            <<8505, 8505>>, <<8508, 8511>>, <<8517, 8521>>, <<8526, 8526>>,
            <<8544, 8575>>, <<8579, 8580>>, <<9398, 9449>>, <<11264, 11492>>,
            <<11499, 11502>>, <<11506, 11507>>, <<11520, 11557>>,
            <<11559, 11559>>, <<11565, 11565>>, <<42560, 42605>>,
            <<42624, 42653>>, <<42786, 42887>>, <<42891, 42894>>,
            <<42896, 42954>>, <<42960, 42961>>, <<42963, 42963>>,
            <<42965, 42969>>, <<42997, 42998>>, <<43000, 43002>>,
            <<43824, 43866>>, <<43868, 43880>>, <<43888, 43967>>,
            <<64256, 64262>>, <<64275, 64279>>, <<65313, 65338>>,
            <<65345, 65370>>, <<66560, 66639>>, <<66736, 66771>>,
            <<66776, 66811>>, <<66928, 66938>>, <<66940, 66954>>,
            <<66956, 66962>>, <<66964, 66965>>, <<66967, 66977>>,
            <<66979, 66993>>, <<66995, 67001>>, <<67003, 67004>>,
            <<67456, 67456>>, <<67459, 67461>>, <<67463, 67504>>,
            <<67506, 67514>>, <<68736, 68786>>, <<68800, 68850>>,
            <<71840, 71903>>, <<93760, 93823>>, <<119808, 119892>>,
            <<119894, 119964>>, <<119966, 119967>>, <<119970, 119970>>,
            <<119973, 119974>>, <<119977, 119980>>, <<119982, 119993>>,
            <<119995, 119995>>, <<119997, 120003>>, <<120005, 120069>>,
            <<120071, 120074>>, <<120077, 120084>>, <<120086, 120092>>,
            <<120094, 120121>>, <<120123, 120126>>, <<120128, 120132>>,
            <<120134, 120134>>, <<120138, 120144>>, <<120146, 120485>>,
            <<120488, 120512>>, <<120514, 120538>>, <<120540, 120570>>,
            <<120572, 120596>>, <<120598, 120628>>, <<120630, 120654>>,
            <<120656, 120686>>, <<120688, 120712>>, <<120714, 120744>>,
            <<120746, 120770>>, <<120772, 120779>>, <<122624, 122633>>,
            <<122635, 122654>>, <<125184, 125251>>, <<127280, 127305>>,
            <<127312, 127337>>, <<127344, 127369>> }
    IN  {"A", "B", "C", "D", "E", "F", "G", "H", "I", "J", "K", "L", "M",
         "N", "O", "P", "Q", "R", "S", "T", "U", "V", "W", "X", "Y", "Z",
         "a", "b", "c", "d", "e", "f", "g", "h", "i", "j", "k", "l", "m",
         "n", "o", "p", "q", "r", "s", "t", "u", "v", "w", "x", "y", "z"}
            \cup {Chr(n) : n \in UNION {r[1]..r[2] : r \in ranges}}

\* the capital sigma at position i of s ends a word: the nearest character
\* before it that is not case-ignorable is cased, and the nearest one after
\* it, if there is one, is not
FinalSigma(s, i) ==
    LET before == {j \in 1..(i - 1) : s[j] \notin CaseIgnorable}
        behind == {j \in (i + 1)..Len(s) : s[j] \notin CaseIgnorable}
    IN  /\ before # {}
        /\ s[CHOOSE j \in before : \A k \in before : k <= j] \in Cased
        /\ \/ behind = {}
           \/ s[CHOOSE j \in behind : \A k \in behind : j <= k] \notin Cased

\* str.lower() of s from position i on: every character by itself, but the
\* capital sigma '\u03a3', which becomes '\u03c2' at the end of a word and
\* '\u03c3' elsewhere
RECURSIVE LowerFrom(_, _)
LowerFrom(s, i) ==
    IF i > Len(s) THEN <<>>
    ELSE (IF s[i] = Chr(931)
          THEN <<IF FinalSigma(s, i) THEN Chr(962) ELSE Chr(963)>>
          ELSE Lower(s[i])) \o LowerFrom(s, i + 1)

\* str.lower()
LowerStr(s) == LowerFrom(s, 1)

RECURSIVE LStrip(_)
LStrip(s) ==
    IF s # <<>> /\ IsSpace(Head(s)) THEN LStrip(Tail(s)) ELSE s

RECURSIVE RStrip(_)
RStrip(s) ==
    IF s # <<>> /\ IsSpace(s[Len(s)])
    THEN RStrip(SubSeq(s, 1, Len(s) - 1))
    ELSE s

\* str.strip()
Strip(s) == RStrip(LStrip(s))

RECURSIVE IntLStrip(_)
IntLStrip(s) ==
    IF s # <<>> /\ IsIntSpace(Head(s)) THEN IntLStrip(Tail(s)) ELSE s

RECURSIVE IntRStrip(_)
IntRStrip(s) ==
    IF s # <<>> /\ IsIntSpace(s[Len(s)])
    THEN IntRStrip(SubSeq(s, 1, Len(s) - 1))
    ELSE s

\* str.split(sep) for a one-character separator: empty pieces are kept
RECURSIVE SplitAcc(_, _, _)
SplitAcc(s, sep, cur) ==
    IF s = <<>> THEN <<cur>>
    ELSE IF Head(s) = sep
         THEN <<cur>> \o SplitAcc(Tail(s), sep, <<>>)
         ELSE SplitAcc(Tail(s), sep, Append(cur, Head(s)))

Split(s, sep) == SplitAcc(s, sep, <<>>)

\* str(n) for n >= 0
RECURSIVE Str(_)
Str(n) ==
    IF n < 10 THEN <<Digits[n + 1]>>
    ELSE Append(Str(n \div 10), Digits[(n % 10) + 1])

IsPrefix(p, s) == Len(p) <= Len(s) /\ SubSeq(s, 1, Len(p)) = p

\* str.replace(old, new): leftmost, non-overlapping occurrences
RECURSIVE Replace(_, _, _)
Replace(s, old, new) ==
    IF s = <<>> THEN <<>>
    ELSE IF IsPrefix(old, s)
         THEN new \o Replace(SubSeq(s, Len(old) + 1, Len(s)), old, new)
         ELSE <<Head(s)>> \o Replace(Tail(s), old, new)

Contains(s, c) == \E i \in 1..Len(s) : s[i] = c

\* the value int() cannot parse: every integer parsed here is >= 0, because
\* a token holding "-" is split on it before int() sees the pieces
NoInt == -1

\* digits with single underscores between them ("1_0" is 10 to int())
RECURSIVE DigitsVal(_, _, _)
DigitsVal(s, acc, lastDigit) ==
    IF s = <<>> THEN (IF lastDigit THEN acc ELSE NoInt)
    ELSE IF IsDigit(Head(s))
         THEN DigitsVal(Tail(s), acc * 10 + DigitVal(Head(s)), TRUE)
         ELSE IF Head(s) = "_" /\ lastDigit
              THEN DigitsVal(Tail(s), acc, FALSE)
              ELSE NoInt

\* int(s): surrounding whitespace and one leading "+" are accepted; a text
\* of more digits than sys.int_info.default_max_str_digits is refused
ParseInt(s) ==
    LET t == IntRStrip(IntLStrip(s))
        u == IF t # <<>> /\ Head(t) = "+" THEN Tail(t) ELSE t
        max_str_digits == 4300
    IN  IF u = <<>> \/ ~IsDigit(Head(u)) THEN NoInt
        ELSE IF Cardinality({i \in 1..Len(u) : IsDigit(u[i])}) > max_str_digits
        THEN NoInt
        ELSE DigitsVal(u, 0, FALSE)

RECURSIVE SortedSeq(_)
\* sorted(list(S)) for a finite set of integers
SortedSeq(S) ==
    IF S = {} THEN <<>>
    ELSE LET m == CHOOSE x \in S : \A y \in S : x <= y
         IN  <<m>> \o SortedSeq(S \ {m})

\* PartPages without the upper limit total_pages
PartPagesNoLimit(part0, total_pages) ==
    LET part == LowerStr(Strip(part0))
        part_resolved == Replace(part, <<"e", "n", "d">>, Str(total_pages))
        pieces == Split(part_resolved, "-")
        start == ParseInt(pieces[1])
        end == ParseInt(pieces[2])
        page_num == ParseInt(part_resolved)
    IN  IF part = <<>> THEN {}
        ELSE IF Contains(part_resolved, "-")
             THEN IF Len(pieces) # 2 \/ start = NoInt \/ end = NoInt THEN {}
                  ELSE IF start <= 0 \/ end < start THEN {}
                       ELSE start..end
             ELSE IF page_num = NoInt THEN {}
                  ELSE IF page_num <= 0 THEN {}
                       ELSE {page_num}

\* the pages one comma-separated token contributes (lines 143-165)
PartPages(part0, total_pages) ==
    LET part == LowerStr(Strip(part0))
        part_resolved == Replace(part, <<"e", "n", "d">>, Str(total_pages))
        pieces == Split(part_resolved, "-")
        start == ParseInt(pieces[1])
        end == ParseInt(pieces[2])
        page_num == ParseInt(part_resolved)
    IN  IF part = <<>> THEN {}
        ELSE IF Contains(part_resolved, "-")
             THEN IF Len(pieces) # 2 \/ start = NoInt \/ end = NoInt THEN {}
                  ELSE IF start <= 0 \/ end < start \/ end > total_pages THEN {}
                       ELSE start..end
             ELSE IF page_num = NoInt THEN {}
                  ELSE IF page_num <= 0 \/ page_num > total_pages THEN {}
                       ELSE {page_num}

\* current_segment_pages of one semicolon-separated segment (lines 140-165)
SegmentPages(segment_str, total_pages) ==
    LET parts == Split(Strip(segment_str), ",")
    IN  UNION {PartPages(parts[i], total_pages) : i \in 1..Len(parts)}

RECURSIVE SegmentsFrom(_, _)
SegmentsFrom(segs, total_pages) ==
    IF segs = <<>> THEN <<>>
    ELSE LET pages == SegmentPages(Head(segs), total_pages)
             rest == SegmentsFrom(Tail(segs), total_pages)
         IN  IF pages # {} THEN <<SortedSeq(pages)>> \o rest ELSE rest

\* ParsePageRanges that splits on "," only: every segment in one group
ParsePageRangesOneGroup(ranges_str, total_pages) ==
    IF ranges_str = <<>> THEN <<>>
    ELSE SegmentsFrom(<<Replace(ranges_str, <<";">>, <<",">>)>>, total_pages)

\* _parse_page_ranges(ranges_str, total_pages)
ParsePageRanges(ranges_str, total_pages) ==
    IF ranges_str = <<>> THEN <<>>
    ELSE SegmentsFrom(Split(ranges_str, ";"), total_pages)


(***************************************************************************)
(* State.  The conversion: the arguments of convert_pdf_to_images, the     *)
(* flags of the PdfWorker shared with the UI thread, the locals of the     *)
(* function, the document handles of the PDF library, and what the         *)
(* worker has emitted.  A file is [name, pages]: a number that stands for  *)
(* its path, and the page count of the document.  pdf_files is the list    *)
(* object MainWindow.dropped_files (line 987), which the handlers of the   *)
(* file list change in place while the worker iterates it.                 *)
(***************************************************************************)
VARIABLES
    pdf_files,       \* argument: the list of input files
    page_range_str,  \* argument: the page-range text ("" = all pages)
    save_option,     \* argument: "source_dir", "custom_dir", "new_subdir_in_source"
    output_dir,      \* argument: the custom directory ("" unless custom_dir)
    c_dirs,          \* file system: the directories that exist
    c_files,         \* file system: the paths at which a regular file exists
    made_dirs,       \* history: the directories os.makedirs has created
    is_paused,       \* PdfWorker._is_paused
    should_stop,     \* PdfWorker._should_stop
    ui_pc,           \* UI thread: "idle", or "in_stop" between lines 64 and 65
    pc,              \* worker thread: the statement it executes next
    total_files,     \* local total_files (line 385)
    file_idx,        \* local file_idx (0-based, as in the code)
    pdf_path,        \* local pdf_path: the file the loop took from the list
    doc_pages,       \* local total_pages: len(doc) of the document last opened
    idx,             \* local idx (0-based position in page_selection)
    page_selection,  \* local page_selection
    results,         \* local results
    doc,             \* local doc: 0 = unbound, k = the k-th handle opened
    after,           \* where control goes once the finally block has run
    handles,         \* library state of each handle opened: "open", "closed"
    close_calls,     \* number of close() calls made on each handle
    progress_log,    \* values emitted through worker.progress, in order
    rendered,        \* <<file, page>> of every page rendered, in order
    signal,          \* what PdfWorker.run emitted: "none", "finished", "error"
    returned,        \* the sequence carried by finished (<<>> until then)
    paused_renders,  \* history: renders begun since the pause flag was last set
    stop_info,       \* history: where the worker was when stop() was first called
    resumed_clean,   \* history: resume() found the worker in the poll loop and
                     \*          no pause() or stop() was called since
    called_with      \* history: the files of the list when the function was called

cvars == <<pdf_files, page_range_str, save_option, output_dir, c_dirs, c_files, made_dirs,
           is_paused, should_stop, ui_pc, pc, total_files, file_idx, pdf_path,
           doc_pages, idx, page_selection, results, doc, after, handles, close_calls,
           progress_log, rendered, signal, returned, paused_renders, stop_info,
           resumed_clean, called_with>>

(***************************************************************************)
(* State of a merge: the arguments of merge_pdf_documents, its locals, and *)
(* the part of the file system it touches.  An input is [name, valid,      *)
(* pages]: a number that stands for its path, whether is_valid_pdf accepts *)
(* it and its page count.  input_pdf_paths is the list object              *)
(* MainWindow.dropped_files (line 934).  A directory is                    *)
(* <<"src">> (the directory of the first input), <<"src", name>> (a        *)
(* subfolder of it) or <<"custom", path>>.                                 *)
(***************************************************************************)
VARIABLES
    input_pdf_paths,    \* argument: the inputs, in order
    output_dir_config,  \* argument: [mode, subfolder_name, path]
    same_fs,            \* environment: tempfile.gettempdir() and the output
                        \*   directory are on one file system
    fs_dirs,            \* file system: the directories that exist
    out_file,           \* file system: the file at the output path,
                        \*   [state |-> "absent" | "old" | "partial" | "merged", pages]
    temp_file,          \* file system: the temporary file, "absent",
                        \*   "partial" or "complete"
    m_pc,               \* the statement merge_pdf_documents executes next
    m_i,                \* position of the loop under way (1-based)
    invalid_files,      \* local invalid_files is not empty
    writer,             \* pages added to the PdfWriter, <<file, page>> each
    temp_path,          \* local temp_path is set (not None)
    full_output_path,   \* local full_output_path: <<>> or the resolved directory
    merge_result,       \* the returned dict: "none" until the return statement
    m_init              \* history: the inputs, fs_dirs and out_file at the
                        \*   call, and whether a temporary file was ever created

mvars == <<input_pdf_paths, output_dir_config, same_fs, fs_dirs, out_file, temp_file,
           m_pc, m_i, invalid_files, writer, temp_path, full_output_path, merge_result, m_init>>

(***************************************************************************)
(* State of a split: the arguments of split_pdf_document, its locals and   *)
(* the files it writes.  A result is [status, file_path, error_message];   *)
(* file_path is [dir, name], with dir = <<>> when the code records the     *)
(* bare file name and both empty when it records None.                     *)
(***************************************************************************)
VARIABLES
    source_pdf,         \* argument: [valid, pages] of the source document
    split_options,      \* argument: [type, ranges_str]
    s_config,           \* argument: output_dir_config
    s_dirs,             \* file system: the directories that exist
    s_files,            \* file system: the output files, [dir, name, state, pages]
    s_pc,               \* the statement split_pdf_document executes next
    s_i,                \* loop variable i (pages) or idx (groups), 0-based
    parsed_page_segments,  \* local parsed_page_segments
    s_results,          \* local results
    s_failed            \* history: [env, outputs, read]: how many outputs the
                        \*   environment made fail, the positions (1-based)
                        \*   of the outputs that failed, and whether reading
                        \*   the source raised

svars == <<source_pdf, split_options, s_config, s_dirs, s_files, s_pc, s_i,
           parsed_page_segments, s_results, s_failed>>

(***************************************************************************)
(* State of a call of _parse_page_ranges.  The text parsed is written from *)
(* a description of its tokens: p_spec is a sequence of segments, each a   *)
(* sequence of tokens [kind, a, b, text].                                  *)
(***************************************************************************)
VARIABLES
    p_spec,             \* the tokens ranges_str is written from
    ranges_text,        \* argument ranges_str
    p_total,            \* argument total_pages
    p_pc,               \* "call", "again" (called once), "done" (called twice)
    p_result,           \* what the call on ranges_text returned
    p_kept              \* what a second call returned, on the text without
                        \*   the tokens the first call has to reject

pvars == <<p_spec, ranges_text, p_total, p_pc, p_result, p_kept>>

(***************************************************************************)
(* State of repeated calls of create_output_path with the same arguments.  *)
(***************************************************************************)
VARIABLES
    d_config,           \* argument output_config
    target_filename,    \* argument target_filename
    d_dirs,             \* file system: the directories that exist
    d_calls             \* the calls made so far, [ok, path, mkdir_ok, before,
                        \*   after]: whether a path was returned, the path
                        \*   <<directory, file name>>, whether mkdir was
                        \*   allowed to succeed, and the directories
                        \*   existing before and after the call

dvars == <<d_config, target_filename, d_dirs, d_calls>>

(***************************************************************************)
(* State of the main window: the file list, the current tab, the two       *)
(* buttons, where the UI thread is inside execute_action, and the          *)
(* PdfWorker threads started so far.  Widgets that only display (progress  *)
(* bar, status bar, message boxes) are left out.                           *)
(***************************************************************************)
VARIABLES
    dropped_files,      \* MainWindow.dropped_files: the number of files listed
    tab_index,          \* tabs.currentIndex(): 0 merge, 1 split, 2 convert
    execute_btn,        \* execute_btn.isEnabled()
    pause_btn,          \* pause_btn.isEnabled()
    w_pc,               \* UI thread: "idle", or "process_events" inside
                        \*   execute_action at line 917
    workers,            \* the PdfWorker threads started, in order, [task, state]:
                        \*   "running", "emitted" (its signal is queued),
                        \*   "handled"; MainWindow.worker is the last
    w_outcome,          \* history: how the last execute_action or worker ended
    list_edits          \* history: the changes made to the file list while a
                        \*   conversion or a merge was iterating it

wvars == <<dropped_files, tab_index, execute_btn, pause_btn, w_pc, workers, w_outcome,
           list_edits>>

\* the variables the other operations leave alone
NotConvert == <<mvars, svars, pvars, dvars, wvars>>

NotMerge == <<cvars, svars, pvars, dvars, wvars>>

NotSplit == <<cvars, mvars, pvars, dvars, wvars>>

NotParse == <<cvars, mvars, svars, dvars, wvars>>

NotPath == <<cvars, mvars, svars, pvars, wvars>>

NotWindow == <<cvars, mvars, svars, pvars, dvars, list_edits>>

\* what a handler of the file list leaves alone: everything but the list
\* itself, under each of the names it has
NotFileList ==
    <<page_range_str, save_option, output_dir, c_dirs, c_files, made_dirs, is_paused,
      should_stop, ui_pc, pc, total_files, file_idx, pdf_path, doc_pages, idx,
      page_selection, results, doc, after, handles, close_calls, progress_log,
      rendered, signal, returned, paused_renders, stop_info, resumed_clean,
      called_with, output_dir_config, same_fs, fs_dirs, out_file, temp_file, m_pc, m_i,
      invalid_files, writer, temp_path, full_output_path, merge_result, m_init,
      svars, pvars, dvars>>

\* the page-range texts the conversion is started with
ConvertRanges ==
    { <<>>,
      <<"2">>,
      <<"e", "n", "d", ";", "1">> }

NoStop == [called |-> FALSE, file |-> 0, unchecked |-> FALSE, blocked |-> FALSE,
           nrend |-> 0, inflight |-> FALSE]

\* a file of the conversion
File(name, pages) == [name |-> name, pages |-> pages]

\* pdf_path before the loop has taken a file
NoFile == File(0, 0)

\* the names of the files of a list
Names(files) == {files[k].name : k \in 1..Len(files)}

\* a result dict: file_path is the name of the file
Result(status, file) == [status |-> status, file_path |-> file]

\* the save options the conversion is started with, and the directories
\* and regular files that exist then
ConvertSaveConfigs ==
    { [save_option |-> "source_dir", output_dir |-> <<>>, dirs |-> {<<"src">>},
       files |-> {}],
      [save_option |-> "new_subdir_in_source", output_dir |-> <<>>, dirs |-> {<<"src">>},
       files |-> {}],
      [save_option |-> "custom_dir", output_dir |-> <<"c">>,
       dirs |-> {<<"src">>, <<"custom", <<"c">>>>}, files |-> {}],
      [save_option |-> "custom_dir", output_dir |-> <<"c">>, dirs |-> {<<"src">>},
       files |-> {}],
      [save_option |-> "custom_dir", output_dir |-> <<"c">>, dirs |-> {<<"src">>},
       files |-> {<<"custom", <<"c">>>>}] }

ConvertInit ==
    /\ \E n \in 0..MaxFiles : \E pages \in [1..n -> 0..MaxPages] :
          pdf_files = [k \in 1..n |-> File(k, pages[k])]
    /\ page_range_str \in ConvertRanges
    /\ \E config \in ConvertSaveConfigs :
          /\ save_option = config.save_option
          /\ output_dir = config.output_dir
          /\ c_dirs = config.dirs
          /\ c_files = config.files
    /\ made_dirs = {}
    /\ is_paused = FALSE
    /\ should_stop = FALSE
    /\ ui_pc = "idle"
    /\ pc = "file_check"
    /\ total_files = Len(pdf_files)
    /\ file_idx = 0
    /\ pdf_path = NoFile
    /\ doc_pages = 0
    /\ idx = 0
    /\ page_selection = <<>>
    /\ results = <<>>
    /\ doc = 0
    /\ after = "none"
    /\ handles = <<>>
    /\ close_calls = <<>>
    /\ progress_log = <<>>
    /\ rendered = <<>>
    /\ signal = "none"
    /\ returned = <<>>
    /\ paused_renders = 0
    /\ stop_info = NoStop
    /\ resumed_clean = FALSE
    /\ called_with = pdf_files

(***************************************************************************)
(* Pure parts of convert_pdf_to_images.                                    *)
(***************************************************************************)
RECURSIVE Flatten(_)
Flatten(segs) == IF segs = <<>> THEN <<>> ELSE Head(segs) \o Flatten(Tail(segs))

SeqToSet(s) == {s[i] : i \in 1..Len(s)}

\* lines 404-415: the selection of one document
PageSelection(range_str, total_pages) ==
    IF range_str # <<>>
    THEN SortedSeq(SeqToSet(Flatten(ParsePageRanges(range_str, total_pages))))
    ELSE SortedSeq(1..total_pages)

(***************************************************************************)
(* The float arithmetic of the progress values: IEEE 754 binary64, every   *)
(* operation rounded to the nearest float, ties to the even one.  A        *)
(* positive float is [m, e]: m its significant binary digits from the most *)
(* significant, at most 53 of them, and e the exponent of the last digit.  *)
(***************************************************************************)
RECURSIVE Bits(_)
\* the binary digits of the integer n, most significant first; none for 0
Bits(n) == IF n = 0 THEN <<>> ELSE Append(Bits(n \div 2), n % 2)

\* the integer written by the binary digits b
BitsVal(b) ==
    LET v[i \in 0..Len(b)] == IF i = 0 THEN 0 ELSE 2 * v[i - 1] + b[i]
    IN  v[Len(b)]

\* the float nearest to the number with binary digits b and last exponent e;
\* inexact says that the number is a little above what b writes
RoundFloat(b, e, inexact) ==
    LET ones == {i \in 1..Len(b) : b[i] = 1}
        first == IF ones = {} THEN Len(b) + 1
                 ELSE CHOOSE i \in ones : \A j \in ones : i <= j
        s == SubSeq(b, first, Len(b))
        L == Len(s)
    IN  IF L <= 53 THEN [m |-> s, e |-> e]
        ELSE LET keep == SubSeq(s, 1, 53)
                 above == inexact \/ \E i \in 55..L : s[i] = 1
                 up == s[54] = 1 /\ (above \/ keep[53] = 1)
                 zeros == {i \in 1..53 : keep[i] = 0}
                 last0 == CHOOSE i \in zeros : \A j \in zeros : j <= i
             IN  IF ~up THEN [m |-> keep, e |-> e + L - 53]
                 ELSE IF zeros = {}
                 THEN [m |-> <<1>> \o [i \in 1..52 |-> 0], e |-> e + L - 52]
                 ELSE [m |-> [i \in 1..53 |-> IF i < last0 THEN keep[i]
                                              ELSE IF i = last0 THEN 1 ELSE 0],
                       e |-> e + L - 53]

\* the eight binary digits of v < 256
ByteBits(v) == [j \in 1..8 |-> (v \div 2^(8 - j)) % 2]

\* b with zeros put before it to a length that is a multiple of eight
ByteAligned(b) == [i \in 1..((8 - (Len(b) % 8)) % 8) |-> 0] \o b

RECURSIVE LongDiv(_, _, _, _, _)
\* the binary digits d divided by the integer q, eight digits at a time from
\* digit i on, r the remainder and out the quotient digits so far
LongDiv(d, q, i, r, out) ==
    IF i > Len(d) THEN [bits |-> out, rem |-> r]
    ELSE LET t == 256 * r + BitsVal(SubSeq(d, i, i + 7))
         IN  LongDiv(d, q, i + 8, t % q, out \o ByteBits(t \div q))

\* x / q for a float x, or an integer x written [m |-> Bits(x), e |-> 0],
\* and an integer q:
\* the quotient is taken to two digits and more beyond the 53 of a float
FloatDiv(x, q) ==
    LET pad == 55 + Len(Bits(q))
        quot == LongDiv(ByteAligned(x.m \o [i \in 1..pad |-> 0]), q, 1, 0, <<>>)
    IN  RoundFloat(quot.bits, x.e - pad, quot.rem # 0)

\* n + x for an integer n >= 0 and a float x
IntPlusFloat(n, x) ==
    LET y == IF x.e > 0 THEN [m |-> x.m \o [i \in 1..x.e |-> 0], e |-> 0] ELSE x
        L == Len(y.m)
        f == 0 - y.e
        int_part == IF L > f THEN BitsVal(SubSeq(y.m, 1, L - f)) ELSE 0
        fraction == IF L > f THEN SubSeq(y.m, L - f + 1, L)
                    ELSE [i \in 1..(f - L) |-> 0] \o y.m
    IN  RoundFloat(Bits(n + int_part) \o fraction, y.e, FALSE)

RECURSIVE MulBits(_, _, _, _, _)
\* the binary digits b times the integer k, eight digits at a time from
\* digit i down, c the carry and out the product digits so far
MulBits(b, k, i, c, out) ==
    IF i = 0 THEN Bits(c) \o out
    ELSE LET t == BitsVal(SubSeq(b, i - 7, i)) * k + c
         IN  MulBits(b, k, i - 8, t \div 256, ByteBits(t % 256) \o out)

\* x * k for a float x and an integer k
FloatMul(x, k) ==
    LET b == ByteAligned(x.m)
    IN  RoundFloat(MulBits(b, k, Len(b), 0, <<>>), x.e, FALSE)

\* int(x) for a float x: the digits before the binary point
FloatTrunc(x) ==
    IF x.e >= 0 THEN BitsVal(x.m \o [i \in 1..x.e |-> 0])
    ELSE IF Len(x.m) + x.e > 0 THEN BitsVal(SubSeq(x.m, 1, Len(x.m) + x.e))
    ELSE 0

\* PagePercent without the files already done
PagePercentOfFile(fidx, i, n, total) ==
    FloatTrunc(FloatMul(FloatDiv([m |-> Bits(i + 1), e |-> 0], n), 100))

\* line 475: int(((file_idx + (idx + 1) / n) / total_files) * 100), in float
\* arithmetic: the result is below the floor of the exact quotient for some
\* arguments, PagePercent(1, 1, 5, 5) = 27 for one
PagePercent(fidx, i, n, total) ==
    FloatTrunc(FloatMul(FloatDiv(IntPlusFloat(fidx, FloatDiv([m |-> Bits(i + 1), e |-> 0], n)),
                                 total), 100))

\* line 497: int(((file_idx + 1) / total_files) * 100), in float arithmetic:
\* FilePercent(28, 50) = 57
FilePercent(fidx, total) ==
    FloatTrunc(FloatMul(FloatDiv([m |-> Bits(fidx + 1), e |-> 0], total), 100))

\* line 439: the for loop over page_selection, entered at position i
PageLoopPc(i, n) == IF i < n THEN "cp_while" ELSE "success"

\* line 70: the loop condition of check_paused
WhilePaused(paused) == IF paused THEN "cp_sleep" ELSE "cp_return"

\* AfterSleep of a check_paused that sleeps once instead of looping
AfterSleepOnce(stop) == "cp_return"

\* lines 71-73: after the sleep, break on stop, else test the flag again
AfterSleep(stop) == IF stop THEN "cp_return" ELSE "cp_while"

(***************************************************************************)
(* The UI thread: the calls on the PdfWorker.  toggle_pause calls pause()   *)
(* and resume() on the worker it holds, before or after the worker has     *)
(* emitted its signal, and closeEvent calls stop() while the thread is     *)
(* running, which it still is when run() has emitted the signal and has    *)
(* not returned yet.  stop() is two statements, and the worker may run     *)
(* between them.                                                           *)
(***************************************************************************)
Running == pc # "done"

\* the worker is inside the poll loop of check_paused with the flag set
BlockedInPoll == pc = "cp_sleep" \/ (pc = "cp_while" /\ is_paused)

UIUnchanged ==
    UNCHANGED <<NotConvert, pdf_files, page_range_str, save_option, output_dir, c_dirs,
                c_files, made_dirs, pc, total_files, file_idx, pdf_path, doc_pages, idx,
                page_selection,
                results, doc, after, handles, close_calls, progress_log,
                rendered, signal, returned, called_with>>

\* PdfWorker.pause
Pause ==
    /\ ui_pc = "idle"
    /\ is_paused' = TRUE
    /\ paused_renders' = IF is_paused THEN paused_renders ELSE 0
    /\ resumed_clean' = FALSE
    /\ UNCHANGED <<should_stop, ui_pc, stop_info>>
    /\ UIUnchanged

\* PdfWorker.resume
Resume ==
    /\ ui_pc = "idle"
    /\ is_paused' = FALSE
    /\ paused_renders' = 0
    /\ resumed_clean' = (resumed_clean \/ (BlockedInPoll /\ is_paused /\ ~should_stop))
    /\ UNCHANGED <<should_stop, ui_pc, stop_info>>
    /\ UIUnchanged

\* PdfWorker.stop, line 64
StopSet ==
    /\ ui_pc = "idle"
    /\ should_stop' = TRUE
    /\ ui_pc' = "in_stop"
    /\ resumed_clean' = FALSE
    /\ stop_info' =
         IF stop_info.called THEN stop_info
         ELSE [called |-> TRUE,
               file |-> IF pc \in {"file_check", "return"} THEN 0 ELSE pdf_path.name,
               unchecked |-> \/ pc \in {"cp_while", "cp_sleep", "cp_return"}
                             \/ (pc = "render" /\ idx + 1 < Len(page_selection)),
               blocked |-> BlockedInPoll,
               nrend |-> Len(rendered),
               inflight |-> (pc = "render")]
    /\ UNCHANGED <<is_paused, paused_renders>>
    /\ UIUnchanged

\* PdfWorker.stop, lines 65-66
StopResume ==
    /\ ui_pc = "in_stop"
    /\ is_paused' = FALSE
    /\ ui_pc' = "idle"
    /\ paused_renders' = IF is_paused THEN 0 ELSE paused_renders
    /\ UNCHANGED <<should_stop, stop_info, resumed_clean>>
    /\ UIUnchanged

(***************************************************************************)
(* The worker thread: convert_pdf_to_images, called by PdfWorker.run.      *)
(***************************************************************************)
WorkerUnchanged == UNCHANGED <<NotConvert, pdf_files, page_range_str, save_option,
                               output_dir, is_paused, should_stop, ui_pc, stop_info,
                               resumed_clean, total_files, called_with>>

\* the steps that create no directory
DirsUnchanged == UNCHANGED <<c_dirs, c_files, made_dirs>>

\* lines 387-395: the head of the file loop and its stop check.  The
\* iterator of the list compares its position with the length the list has
\* now, and takes the file that is at that position now.
FileCheck ==
    /\ pc = "file_check"
    /\ IF file_idx >= Len(pdf_files)
       THEN pc' = "return" /\ UNCHANGED <<results, pdf_path>>
       ELSE /\ pdf_path' = pdf_files[file_idx + 1]
            /\ IF should_stop
               THEN /\ results' = Append(results, Result("cancelled", pdf_path'.name))
                    /\ pc' = "return"
               ELSE pc' = "open" /\ UNCHANGED results
    /\ UNCHANGED <<file_idx, doc_pages, idx, page_selection, doc, after, handles, close_calls,
                   progress_log, rendered, signal, returned, paused_renders>>
    /\ DirsUnchanged
    /\ WorkerUnchanged

\* line 398 raises: the except clause records the failure
OpenFails ==
    /\ pc = "open"
    /\ results' = Append(results, Result("failure", pdf_path.name))
    /\ after' = "progress"
    /\ pc' = "finally"
    /\ UNCHANGED <<file_idx, pdf_path, doc_pages, idx, page_selection, doc, handles, close_calls,
                   progress_log, rendered, signal, returned, paused_renders>>
    /\ DirsUnchanged
    /\ WorkerUnchanged

\* base_name + "_images" of the file named k (line 433)
ImagesName(k) == Str(k) \o <<"_", "i", "m", "a", "g", "e", "s">>

\* lines 426-433: output_dir_final of the file named k
OutputDirFinal(option, custom, k) ==
    CASE option = "source_dir" -> <<"src">>
      [] option = "custom_dir" -> <<"custom", custom>>
      [] option = "new_subdir_in_source" -> <<"src", ImagesName(k)>>

\* lines 435-436: [ok, dirs]; a path that exists (os.path.exists: a
\* directory or a regular file) is left alone, a missing one is created by
\* os.makedirs, which raises for the empty path and when the environment
\* refuses (dir_ok false)
MakeDirs(d, dirs, files, dir_ok) ==
    IF d \in dirs \cup files THEN [ok |-> TRUE, dirs |-> dirs]
    ELSE IF d = <<"custom", <<>>>> \/ ~dir_ok THEN [ok |-> FALSE, dirs |-> dirs]
    ELSE [ok |-> TRUE, dirs |-> dirs \cup {d}]

\* lines 398-436: the document opens, the pages are selected and the output
\* directory determined and created
OpenOk(dir_ok) ==
    /\ pc = "open"
    /\ doc' = Len(handles) + 1
    /\ handles' = Append(handles, "open")
    /\ close_calls' = Append(close_calls, 0)
    /\ doc_pages' = pdf_path.pages
    /\ page_selection' = PageSelection(page_range_str, doc_pages')
    /\ idx' = 0
    /\ IF page_selection' = <<>>
       THEN /\ results' = Append(results, Result("failure", pdf_path.name))
            /\ after' = "continue"
            /\ pc' = "finally"
            /\ DirsUnchanged
       ELSE LET made == MakeDirs(OutputDirFinal(save_option, output_dir, pdf_path.name),
                                 c_dirs, c_files, dir_ok)
            IN  /\ c_dirs' = made.dirs
                /\ UNCHANGED c_files
                /\ made_dirs' = made_dirs \cup (made.dirs \ c_dirs)
                /\ IF ~made.ok
                   THEN /\ results' = Append(results, Result("failure", pdf_path.name))
                        /\ after' = "progress"
                        /\ pc' = "finally"
                   ELSE /\ pc' = PageLoopPc(0, Len(page_selection'))
                        /\ UNCHANGED <<results, after>>
    /\ UNCHANGED <<file_idx, pdf_path, progress_log, rendered, signal, returned,
                   paused_renders>>
    /\ WorkerUnchanged

\* line 70: while self._is_paused
CpWhile ==
    /\ pc = "cp_while"
    /\ pc' = WhilePaused(is_paused)
    /\ UNCHANGED <<file_idx, pdf_path, doc_pages, idx, page_selection, results, doc, after, handles,
                   close_calls, progress_log, rendered, signal, returned,
                   paused_renders>>
    /\ DirsUnchanged
    /\ WorkerUnchanged

\* lines 71-73: sleep, then break if the stop flag is set
CpSleep ==
    /\ pc = "cp_sleep"
    /\ pc' = AfterSleep(should_stop)
    /\ UNCHANGED <<file_idx, pdf_path, doc_pages, idx, page_selection, results, doc, after, handles,
                   close_calls, progress_log, rendered, signal, returned,
                   paused_renders>>
    /\ DirsUnchanged
    /\ WorkerUnchanged

\* line 74 and lines 441-448: check_paused returns the stop flag; when it is
\* set the file is recorded as cancelled, the document closed, and the
\* function returns (through the finally block)
CpReturn ==
    /\ pc = "cp_return"
    /\ IF should_stop
       THEN /\ results' = Append(results, Result("cancelled", pdf_path.name))
            /\ handles' = [handles EXCEPT ![doc] = "closed"]
            /\ close_calls' = [close_calls EXCEPT ![doc] = @ + 1]
            /\ after' = "return"
            /\ pc' = "finally"
       ELSE /\ pc' = "render"
            /\ UNCHANGED <<results, handles, close_calls, after>>
    /\ UNCHANGED <<file_idx, pdf_path, doc_pages, idx, page_selection, doc, progress_log, rendered,
                   signal, returned, paused_renders>>
    /\ DirsUnchanged
    /\ WorkerUnchanged

\* line 439: the next position of the page loop
NextIdx(i) == i + 1

\* lines 450-476: one page is rendered and saved, and its progress emitted.
\* With total_files = 0 (a file added to a list that was empty at line 385)
\* line 475 divides by zero and the except clause records the failure.
\* pix.save (line 470) writes into output_dir_final, which has to be a
\* directory.
RenderOk ==
    /\ pc = "render"
    /\ OutputDirFinal(save_option, output_dir, pdf_path.name) \in c_dirs
    /\ rendered' = Append(rendered, <<pdf_path.name, page_selection[idx + 1]>>)
    /\ IF total_files = 0
       THEN /\ results' = Append(results, Result("failure", pdf_path.name))
            /\ after' = "progress"
            /\ pc' = "finally"
            /\ UNCHANGED <<progress_log, idx>>
       ELSE /\ progress_log' =
                 Append(progress_log,
                        PagePercent(file_idx, idx, Len(page_selection), total_files))
            /\ idx' = NextIdx(idx)
            /\ pc' = PageLoopPc(idx', Len(page_selection))
            /\ UNCHANGED <<results, after>>
    /\ paused_renders' = IF is_paused THEN paused_renders + 1 ELSE paused_renders
    /\ UNCHANGED <<file_idx, pdf_path, doc_pages, page_selection, doc, handles,
                   close_calls, signal, returned>>
    /\ DirsUnchanged
    /\ WorkerUnchanged

\* lines 456-470 raise (load_page, get_pixmap or save; save always raises
\* when a regular file is in the place of the directory): the except clause
RenderFails ==
    /\ pc = "render"
    /\ results' = Append(results, Result("failure", pdf_path.name))
    /\ after' = "progress"
    /\ pc' = "finally"
    /\ paused_renders' = IF is_paused THEN paused_renders + 1 ELSE paused_renders
    /\ UNCHANGED <<file_idx, pdf_path, doc_pages, idx, page_selection, doc, handles, close_calls,
                   progress_log, rendered, signal, returned>>
    /\ DirsUnchanged
    /\ WorkerUnchanged

\* lines 478-484: every selected page was rendered
Success ==
    /\ pc = "success"
    /\ results' = Append(results, Result("success", pdf_path.name))
    /\ after' = "progress"
    /\ pc' = "finally"
    /\ UNCHANGED <<file_idx, pdf_path, doc_pages, idx, page_selection, doc, handles, close_calls,
                   progress_log, rendered, signal, returned, paused_renders>>
    /\ DirsUnchanged
    /\ WorkerUnchanged

\* where the finally block hands control: the file-level progress (normal
\* and except paths), the next file (continue, line 424), or the return
\* of line 448
AfterFinallyPc(a) ==
    CASE a = "progress" -> "file_progress"
      [] a = "continue" -> "file_check"
      [] a = "return" -> "return"

\* line 492: bool(doc) is len(doc) > 0 on an open document
Truthy(len_doc) == len_doc > 0

\* a truth test that lets a closed handle through
TestRaisesNever(handle) == FALSE

\* line 492: the truth test of a Document is len(doc), and on a closed
\* Document len() raises ValueError("document closed")
TestRaises(handle) == handle = "closed"

\* lines 491-493.  doc is whatever the local was last bound to, which is the
\* previous file's handle when line 398 has just raised.  The test of a
\* closed handle raises out of the function, before line 493 (PdfWorker.run
\* then emits error, lines 49-50).
Finally ==
    /\ pc = "finally"
    /\ IF doc # 0 /\ TestRaises(handles[doc])
       THEN /\ pc' = "done"
            /\ signal' = "error"
            /\ UNCHANGED <<file_idx, handles, close_calls>>
       ELSE /\ IF doc # 0 /\ Truthy(doc_pages)
               THEN /\ handles' = [handles EXCEPT ![doc] = "closed"]
                    /\ close_calls' = [close_calls EXCEPT ![doc] = @ + 1]
               ELSE UNCHANGED <<handles, close_calls>>
            /\ pc' = AfterFinallyPc(after)
            /\ file_idx' = IF after = "continue" THEN file_idx + 1 ELSE file_idx
            /\ UNCHANGED signal
    /\ UNCHANGED <<pdf_path, doc_pages, idx, page_selection, results, doc, after,
                   progress_log, rendered, returned, paused_renders>>
    /\ DirsUnchanged
    /\ WorkerUnchanged

\* lines 495-498: the file-level progress, then the next file.  With
\* total_files = 0 line 497 divides by zero outside the try statement, and
\* PdfWorker.run emits error (lines 49-50).
FileProgress ==
    /\ pc = "file_progress"
    /\ IF total_files = 0
       THEN /\ pc' = "done"
            /\ signal' = "error"
            /\ UNCHANGED <<progress_log, file_idx>>
       ELSE /\ progress_log' = Append(progress_log, FilePercent(file_idx, total_files))
            /\ file_idx' = file_idx + 1
            /\ pc' = "file_check"
            /\ UNCHANGED signal
    /\ UNCHANGED <<pdf_path, doc_pages, idx, page_selection, results, doc, after,
                   handles, close_calls, rendered, returned, paused_renders>>
    /\ DirsUnchanged
    /\ WorkerUnchanged

\* line 500 (or the return of line 448), then PdfWorker.run line 48
Return ==
    /\ pc = "return"
    /\ returned' = results
    /\ signal' = "finished"
    /\ pc' = "done"
    /\ UNCHANGED <<file_idx, pdf_path, doc_pages, idx, page_selection, results, doc,
                   after, handles, close_calls, progress_log, rendered, paused_renders>>
    /\ DirsUnchanged
    /\ WorkerUnchanged

Worker ==
    \/ FileCheck
    \/ OpenFails
    \/ \E dir_ok \in BOOLEAN : OpenOk(dir_ok)
    \/ CpWhile
    \/ CpSleep
    \/ CpReturn
    \/ RenderOk
    \/ RenderFails
    \/ Success
    \/ Finally
    \/ FileProgress
    \/ Return

UI == Pause \/ Resume \/ StopSet \/ StopResume

(***************************************************************************)
(* create_output_path.  The file system is what the function reads         *)
(* (os.path.isdir) and changes (mkdir); final_path.resolve() makes the     *)
(* path absolute and leaves the directory it names unchanged.              *)
(***************************************************************************)
SrcDir == <<"src">>

\* the default "output_files" of lines 95 and 97
DefaultSubfolder == <<"o", "u", "t", "p", "u", "t", "_", "f", "i", "l", "e", "s">>

\* output_config has no "subfolder_name" key
NoKey == <<"<no key>">>

\* lines 95-97
SubfolderName(config) ==
    LET subfolder == IF config.subfolder_name = NoKey
                     THEN DefaultSubfolder
                     ELSE Strip(config.subfolder_name)
    IN  IF subfolder = <<>> THEN DefaultSubfolder ELSE subfolder

\* the directory the configuration designates, existing or not
TargetDir(config) ==
    CASE config.mode = "source_dir" -> SrcDir
      [] config.mode = "new_subdir_in_source" -> <<"src", SubfolderName(config)>>
      [] config.mode = "custom_dir" -> <<"custom", config.path>>
      [] OTHER -> <<>>

PathError(dirs) == [ok |-> FALSE, dir |-> <<>>, dirs |-> dirs]

\* CreateOutputPath with mkdir(exist_ok=False): an existing subfolder raises
CreateOutputPathNoExistOk(config, dirs, mkdir_ok) ==
    CASE config.mode = "source_dir" ->
           [ok |-> TRUE, dir |-> SrcDir, dirs |-> dirs]
      [] config.mode = "new_subdir_in_source" ->
           LET output_subdir == <<"src", SubfolderName(config)>>
           IN  IF output_subdir \in dirs
               THEN PathError(dirs)
               ELSE IF mkdir_ok
                    THEN [ok |-> TRUE, dir |-> output_subdir,
                          dirs |-> dirs \cup {output_subdir}]
                    ELSE PathError(dirs)
      [] config.mode = "custom_dir" ->
           IF config.path = <<>> \/ <<"custom", config.path>> \notin dirs
           THEN PathError(dirs)
           ELSE [ok |-> TRUE, dir |-> <<"custom", config.path>>, dirs |-> dirs]
      [] OTHER -> PathError(dirs)

\* lines 88-112: [ok, dir, dirs]: whether a path is returned (else ValueError),
\* its directory, and the directories that exist afterwards; mkdir_ok is
\* whether mkdir succeeds when the subfolder does not exist yet
CreateOutputPath(config, dirs, mkdir_ok) ==
    CASE config.mode = "source_dir" ->
           [ok |-> TRUE, dir |-> SrcDir, dirs |-> dirs]
      [] config.mode = "new_subdir_in_source" ->
           LET output_subdir == <<"src", SubfolderName(config)>>
           IN  IF output_subdir \in dirs
               THEN [ok |-> TRUE, dir |-> output_subdir, dirs |-> dirs]
               ELSE IF mkdir_ok
                    THEN [ok |-> TRUE, dir |-> output_subdir,
                          dirs |-> dirs \cup {output_subdir}]
                    ELSE PathError(dirs)
      [] config.mode = "custom_dir" ->
           IF config.path = <<>> \/ <<"custom", config.path>> \notin dirs
           THEN PathError(dirs)
           ELSE [ok |-> TRUE, dir |-> <<"custom", config.path>>, dirs |-> dirs]
      [] OTHER -> PathError(dirs)

(***************************************************************************)
(* merge_pdf_documents.                                                    *)
(***************************************************************************)
\* what a file can be to the merge: a document of some pages, or no PDF
MergeInputs ==
    {[valid |-> TRUE, pages |-> n] : n \in 0..MaxPages}
        \cup {[valid |-> FALSE, pages |-> 0]}

\* an input of the merge
Input(name, kind) == [name |-> name, valid |-> kind.valid, pages |-> kind.pages]

MergeConfigs ==
    {[mode |-> "source_dir", subfolder_name |-> NoKey, path |-> <<>>]}
        \cup {[mode |-> "new_subdir_in_source", subfolder_name |-> n, path |-> <<>>] :
                 n \in {NoKey, <<" ">>, <<"o">>}}
        \cup {[mode |-> "custom_dir", subfolder_name |-> NoKey, path |-> q] :
                 q \in {<<>>, <<"c">>}}
        \cup {[mode |-> "other", subfolder_name |-> NoKey, path |-> <<>>]}

AbsentFile == [state |-> "absent", pages |-> <<>>]

OldFile == [state |-> "old", pages |-> <<>>]

MergeInit ==
    /\ \E n \in 0..MaxFiles : \E kinds \in [1..n -> MergeInputs] :
          input_pdf_paths = [k \in 1..n |-> Input(k, kinds[k])]
    /\ output_dir_config \in MergeConfigs
    /\ same_fs \in BOOLEAN
    /\ fs_dirs \in {{SrcDir} \cup extra :
                      extra \in SUBSET {<<"src", DefaultSubfolder>>, <<"custom", <<"c">>>>}}
    /\ out_file \in {AbsentFile} \cup
                    (IF TargetDir(output_dir_config) \in fs_dirs THEN {OldFile} ELSE {})
    /\ temp_file = "absent"
    /\ m_pc = "validate"
    /\ m_i = 1
    /\ invalid_files = FALSE
    /\ writer = <<>>
    /\ temp_path = FALSE
    /\ full_output_path = <<>>
    /\ merge_result = "none"
    /\ m_init = [inputs |-> input_pdf_paths, fs_dirs |-> fs_dirs, out_file |-> out_file,
                 temp_created |-> FALSE]

\* no merge is running (the other operations' specifications)
MergeIdle ==
    /\ input_pdf_paths = <<>>
    /\ output_dir_config = [mode |-> "source_dir", subfolder_name |-> NoKey, path |-> <<>>]
    /\ same_fs = TRUE
    /\ fs_dirs = {SrcDir}
    /\ out_file = AbsentFile
    /\ temp_file = "absent"
    /\ m_pc = "done"
    /\ m_i = 1
    /\ invalid_files = FALSE
    /\ writer = <<>>
    /\ temp_path = FALSE
    /\ full_output_path = <<>>
    /\ merge_result = "none"
    /\ m_init = [inputs |-> input_pdf_paths, fs_dirs |-> fs_dirs, out_file |-> out_file,
                 temp_created |-> FALSE]

\* no conversion is running
ConvertIdle ==
    /\ pdf_files = <<>>
    /\ page_range_str = <<>>
    /\ save_option = "source_dir"
    /\ output_dir = <<>>
    /\ c_dirs = {<<"src">>}
    /\ c_files = {}
    /\ made_dirs = {}
    /\ is_paused = FALSE
    /\ should_stop = FALSE
    /\ ui_pc = "idle"
    /\ pc = "done"
    /\ total_files = 0
    /\ file_idx = 0
    /\ pdf_path = NoFile
    /\ doc_pages = 0
    /\ idx = 0
    /\ page_selection = <<>>
    /\ results = <<>>
    /\ doc = 0
    /\ after = "none"
    /\ handles = <<>>
    /\ close_calls = <<>>
    /\ progress_log = <<>>
    /\ rendered = <<>>
    /\ signal = "none"
    /\ returned = <<>>
    /\ paused_renders = 0
    /\ stop_info = NoStop
    /\ resumed_clean = FALSE
    /\ called_with = pdf_files

\* lines 309-318: no input failed is_valid_pdf and the list is not empty
InputsAccepted(invalid, inputs) == ~invalid /\ inputs # <<>>

\* lines 326-327: every page of the document named k, in page order
AddPages(w, k, n) == w \o [i \in 1..n |-> <<k, i>>]

\* a return statement: the result is set and the finally block runs next
MergeReturn(status) ==
    /\ merge_result' = status
    /\ m_pc' = "finally"

\* line 308: the list comprehension takes the next input and checks it, or
\* finds no input at its position in the list as it is now
MergeValidate ==
    /\ m_pc = "validate"
    /\ IF m_i > Len(input_pdf_paths)
       THEN /\ m_pc' = "validated"
            /\ UNCHANGED <<m_i, invalid_files>>
       ELSE /\ invalid_files' = (invalid_files \/ ~input_pdf_paths[m_i].valid)
            /\ m_i' = m_i + 1
            /\ UNCHANGED m_pc
    /\ UNCHANGED <<input_pdf_paths, output_dir_config, same_fs, fs_dirs, out_file,
                   temp_file, writer, temp_path, full_output_path, merge_result, m_init>>
    /\ UNCHANGED NotMerge

\* lines 309-318: the two fail-fast returns, or on to the add loop
MergeValidated ==
    /\ m_pc = "validated"
    /\ IF InputsAccepted(invalid_files, input_pdf_paths)
       THEN m_pc' = "add" /\ m_i' = 1 /\ UNCHANGED merge_result
       ELSE MergeReturn("failure") /\ UNCHANGED m_i
    /\ UNCHANGED <<input_pdf_paths, output_dir_config, same_fs, fs_dirs, out_file,
                   temp_file, invalid_files, writer, temp_path, full_output_path,
                   m_init>>
    /\ UNCHANGED NotMerge

\* lines 321-327: the loop takes the next input, opens it and adds its
\* pages, or finds no input at its position in the list as it is now
MergeAddOk ==
    /\ m_pc = "add"
    /\ IF m_i > Len(input_pdf_paths)
       THEN /\ m_pc' = "resolve"
            /\ UNCHANGED <<m_i, writer>>
       ELSE /\ input_pdf_paths[m_i].valid
            /\ writer' = AddPages(writer, input_pdf_paths[m_i].name,
                                  input_pdf_paths[m_i].pages)
            /\ m_i' = m_i + 1
            /\ UNCHANGED m_pc
    /\ UNCHANGED <<input_pdf_paths, output_dir_config, same_fs, fs_dirs, out_file,
                   temp_file, invalid_files, temp_path, full_output_path, merge_result,
                   m_init>>
    /\ UNCHANGED NotMerge

\* lines 328-333: opening or reading the input raises, after k of its pages
\* were added to the writer (none when open or PdfReader raises)
MergeAddFails(k) ==
    /\ m_pc = "add"
    /\ m_i <= Len(input_pdf_paths)
    /\ k < input_pdf_paths[m_i].pages \/ k = 0
    /\ writer' = AddPages(writer, input_pdf_paths[m_i].name, k)
    /\ MergeReturn("failure")
    /\ UNCHANGED <<input_pdf_paths, output_dir_config, same_fs, fs_dirs, out_file,
                   temp_file, m_i, invalid_files, temp_path, full_output_path,
                   m_init>>
    /\ UNCHANGED NotMerge

\* lines 335-336, and lines 352-357 when input_pdf_paths[0] raises (the
\* list is empty by now) or create_output_path raises
MergeResolve(mkdir_ok) ==
    /\ m_pc = "resolve"
    /\ IF input_pdf_paths = <<>>
       THEN /\ MergeReturn("failure")
            /\ UNCHANGED <<fs_dirs, full_output_path>>
       ELSE LET r == CreateOutputPath(output_dir_config, fs_dirs, mkdir_ok)
            IN  /\ fs_dirs' = r.dirs
                /\ IF r.ok
                   THEN /\ full_output_path' = r.dir
                        /\ m_pc' = "temp_create"
                        /\ UNCHANGED merge_result
                   ELSE /\ MergeReturn("failure")
                        /\ UNCHANGED full_output_path
    /\ UNCHANGED <<input_pdf_paths, invalid_files, output_dir_config, same_fs, out_file, temp_file,
                   m_i, writer, temp_path, m_init>>
    /\ UNCHANGED NotMerge

\* lines 339-340: NamedTemporaryFile(delete=False) creates an empty file in
\* the default temporary directory, or raises
MergeTempCreate(ok) ==
    /\ m_pc = "temp_create"
    /\ IF ok
       THEN /\ temp_file' = "partial"
            /\ temp_path' = TRUE
            /\ m_init' = [m_init EXCEPT !.temp_created = TRUE]
            /\ m_pc' = "temp_write"
            /\ UNCHANGED merge_result
       ELSE /\ MergeReturn("failure")
            /\ UNCHANGED <<temp_file, temp_path, m_init>>
    /\ UNCHANGED <<input_pdf_paths, invalid_files, output_dir_config, same_fs, fs_dirs, out_file,
                   m_i, writer, full_output_path>>
    /\ UNCHANGED NotMerge

\* line 341 and the end of the with block: the document is written, or the
\* write raises and leaves what was written so far
MergeTempWrite(ok) ==
    /\ m_pc = "temp_write"
    /\ IF ok
       THEN /\ temp_file' = "complete"
            /\ m_pc' = "move"
            /\ UNCHANGED merge_result
       ELSE /\ MergeReturn("failure")
            /\ UNCHANGED temp_file
    /\ UNCHANGED <<input_pdf_paths, invalid_files, output_dir_config, same_fs, fs_dirs, out_file,
                   m_i, writer, temp_path, full_output_path, m_init>>
    /\ UNCHANGED NotMerge

\* line 344, shutil.move.  "renamed": os.rename puts the file in place in one
\* step, which it can do on one file system only.  "copying": os.rename
\* raises OSError, on one file system or across two, and the copy has opened
\* the output path for writing, which empties the file there (MergeCopy
\* goes on).  "error": os.rename raises and the copy cannot open its files,
\* so the output path is as it was (lines 352-357 return the failure).
MergeMove(outcome) ==
    /\ m_pc = "move"
    /\ CASE outcome = "renamed" ->
              /\ same_fs
              /\ out_file' = [state |-> "merged", pages |-> writer]
              /\ temp_file' = "absent"
              /\ MergeReturn("success")
         [] outcome = "copying" ->
              /\ out_file' = [state |-> "partial", pages |-> <<>>]
              /\ m_pc' = "copy"
              /\ UNCHANGED <<temp_file, merge_result>>
         [] OTHER ->
              /\ MergeReturn("failure")
              /\ UNCHANGED <<out_file, temp_file>>
    /\ UNCHANGED <<input_pdf_paths, invalid_files, output_dir_config, same_fs, fs_dirs, m_i, writer,
                   temp_path, full_output_path, m_init>>
    /\ UNCHANGED NotMerge

\* shutil.move after os.rename raised, copy2 and then os.unlink of the source:
\* "moved", both complete; "partial", the copy of the data raises part-way;
\* "copied", the data is copied and copystat or os.unlink raises, so the
\* merged document lies at the output path, the temporary file is still
\* there and lines 352-357 return the failure
MergeCopy(outcome) ==
    /\ m_pc = "copy"
    /\ CASE outcome = "moved" ->
              /\ out_file' = [state |-> "merged", pages |-> writer]
              /\ temp_file' = "absent"
              /\ MergeReturn("success")
         [] outcome = "copied" ->
              /\ out_file' = [state |-> "merged", pages |-> writer]
              /\ MergeReturn("failure")
              /\ UNCHANGED temp_file
         [] OTHER ->
              /\ MergeReturn("failure")
              /\ UNCHANGED <<out_file, temp_file>>
    /\ UNCHANGED <<input_pdf_paths, invalid_files, output_dir_config, same_fs, fs_dirs, m_i, writer,
                   temp_path, full_output_path, m_init>>
    /\ UNCHANGED NotMerge

\* lines 358-367: the temporary file, if it still exists, is removed; when
\* writer.close() or os.unlink raises, the bare except swallows the
\* exception and the file stays
MergeFinally(cleanup_ok) ==
    /\ m_pc = "finally"
    /\ temp_file' = IF temp_path /\ cleanup_ok THEN "absent" ELSE temp_file
    /\ m_pc' = "done"
    /\ UNCHANGED <<input_pdf_paths, invalid_files, output_dir_config, same_fs, fs_dirs, out_file,
                   m_i, writer, temp_path, full_output_path, merge_result, m_init>>
    /\ UNCHANGED NotMerge

Merge ==
    \/ MergeValidate
    \/ MergeValidated
    \/ MergeAddOk
    \/ \E k \in 0..MaxPages : MergeAddFails(k)
    \/ \E mkdir_ok \in BOOLEAN : MergeResolve(mkdir_ok)
    \/ \E ok \in BOOLEAN : MergeTempCreate(ok)
    \/ \E ok \in BOOLEAN : MergeTempWrite(ok)
    \/ \E outcome \in {"renamed", "copying", "error"} : MergeMove(outcome)
    \/ \E outcome \in {"moved", "copied", "partial"} : MergeCopy(outcome)
    \/ \E cleanup_ok \in BOOLEAN : MergeFinally(cleanup_ok)

(***************************************************************************)
(* split_pdf_document and _write_pdf_with_tempfile.                        *)
(***************************************************************************)
MaxSplitPages == 10

\* most outputs of one split that the environment makes fail
MaxFailures == 2

\* os.path.splitext(os.path.basename(source_pdf_path)) of the source "d.pdf"
BaseName == <<"d">>

Ext == <<".", "p", "d", "f">>

\* the texts of split_options["ranges_str"]; NoKey is a missing key
SplitRanges ==
    { NoKey,
      <<>>,
      <<" ">>,
      <<"x">>,
      <<"e", "n", "d">>,
      <<"3", ",", "1">>,
      <<"2", ";", "1">>,
      <<"1", "-", "3", ",", "5", ";", "7", "-", "e", "n", "d">> }

SplitOptions ==
    {[type |-> "all_pages_separately", ranges_str |-> NoKey]}
        \cup {[type |-> "range", ranges_str |-> r] : r \in SplitRanges}
        \cup {[type |-> "other", ranges_str |-> NoKey]}

\* what _write_pdf_with_tempfile does to the output path: "written", the file
\* is moved into place; "error", creating, writing or moving the temporary
\* file raises with nothing done at the output path; "partial", shutil.move,
\* copying after os.rename raised, raises part-way; "copied", shutil.move has
\* copied the data and copystat or os.unlink of the temporary file raises
WriteOutcomes == {"written", "error", "partial", "copied"}

NoSplitFailure == [env |-> 0, outputs |-> {}, read |-> FALSE]

SplitInit ==
    /\ source_pdf \in {[valid |-> TRUE, pages |-> n] : n \in 0..MaxSplitPages}
                          \cup {[valid |-> FALSE, pages |-> 0]}
    /\ split_options \in SplitOptions
    /\ s_config \in MergeConfigs
    /\ s_dirs \in {{SrcDir} \cup extra :
                     extra \in SUBSET {<<"src", DefaultSubfolder>>, <<"custom", <<"c">>>>}}
    /\ s_files = {}
    /\ s_pc = "validate"
    /\ s_i = 0
    /\ parsed_page_segments = <<>>
    /\ s_results = <<>>
    /\ s_failed = NoSplitFailure

\* no split is running
SplitIdle ==
    /\ source_pdf = [valid |-> FALSE, pages |-> 0]
    /\ split_options = [type |-> "other", ranges_str |-> NoKey]
    /\ s_config = [mode |-> "source_dir", subfolder_name |-> NoKey, path |-> <<>>]
    /\ s_dirs = {SrcDir}
    /\ s_files = {}
    /\ s_pc = "done"
    /\ s_i = 0
    /\ parsed_page_segments = <<>>
    /\ s_results = <<>>
    /\ s_failed = NoSplitFailure

\* a result dict; file_path None is [dir |-> <<>>, name |-> <<>>]
SplitResult(status, dir, name, message) ==
    [status |-> status, file_path |-> [dir |-> dir, name |-> name],
     error_message |-> message]

\* line 244: split_options.get("ranges_str", "")
RangesStr(options) ==
    IF options.ranges_str = NoKey THEN <<>> ELSE options.ranges_str

\* RangeFailure that reports every empty parse as unparseable
RangeFailureAlwaysParse(segments, ranges_str) ==
    IF segments = <<>> THEN "cannot_parse" ELSE "none"

\* lines 248-254: the failure an empty parse is reported with, "none" when
\* there are groups to write
RangeFailure(segments, ranges_str) ==
    IF segments = <<>> /\ ranges_str # <<>> THEN "cannot_parse"
    ELSE IF segments = <<>> THEN "no_ranges"
    ELSE "none"

\* PageFilename with the page number padded to two digits
PageFilenamePadded(page_num_one_based) ==
    BaseName \o <<"_", "p", "a", "g", "e", "_">>
        \o (IF page_num_one_based < 10 THEN <<"0">> ELSE <<>>)
        \o Str(page_num_one_based) \o Ext

\* line 229: f"{base_name}_page_{page_num_one_based}{ext}"
PageFilename(page_num_one_based) ==
    BaseName \o <<"_", "p", "a", "g", "e", "_">> \o Str(page_num_one_based) \o Ext

\* lines 267-268
RangeDesc(page_selection_) ==
    IF Len(page_selection_) > 1
    THEN Str(page_selection_[1]) \o <<"-">> \o Str(page_selection_[Len(page_selection_)])
    ELSE Str(page_selection_[1])

\* lines 269-271: the name of the file of group idx_ (0-based) of n groups
RangeFilename(idx_, page_selection_, n) ==
    BaseName
        \o (IF n > 1
            THEN <<"_", "s", "p", "l", "i", "t", "_">> \o Str(idx_ + 1)
                     \o <<"_", "p", "a", "g", "e", "s", "_">> \o RangeDesc(page_selection_)
            ELSE <<"_", "p", "a", "g", "e", "s", "_">> \o RangeDesc(page_selection_))
        \o Ext

\* lines 173-195: the files after one _write_pdf_with_tempfile call
WriteFile(files, dir, name, pages, outcome) ==
    LET others == {f \in files : ~(f.dir = dir /\ f.name = name)}
    IN  CASE outcome \in {"written", "copied"} ->
               others \cup {[dir |-> dir, name |-> name, state |-> "complete",
                             pages |-> pages]}
          [] outcome = "partial" ->
               others \cup {[dir |-> dir, name |-> name, state |-> "partial",
                             pages |-> <<>>]}
          [] OTHER -> files

\* OutputResult that records every output as a success
OutputResultAlwaysSuccess(r, outcome, name) ==
    SplitResult("success", r.dir, name, "none")

\* lines 231-236 and 272-277: the result of one output; r is what
\* create_output_path gave, outcome what the write did
OutputResult(r, outcome, name) ==
    IF r.ok /\ outcome = "written"
    THEN SplitResult("success", r.dir, name, "none")
    ELSE SplitResult("failure", <<>>, name, "exception")

\* the head of a for loop at position i of n
SplitLoopPc(i, n, body) == IF i < n THEN body ELSE "done"

\* lines 210-216
SplitValidate ==
    /\ s_pc = "validate"
    /\ IF source_pdf.valid
       THEN s_pc' = "open" /\ UNCHANGED s_results
       ELSE /\ s_results' = Append(s_results,
                                   SplitResult("failure", <<>>, <<>>, "invalid_pdf"))
            /\ s_pc' = "done"
    /\ UNCHANGED <<source_pdf, split_options, s_config, s_dirs, s_files, s_i,
                   parsed_page_segments, s_failed>>
    /\ UNCHANGED NotSplit

\* lines 218-223, 243-254 and 284-285: the source is opened and the split
\* type selected; a range text is parsed and an empty parse reported
SplitOpen ==
    /\ s_pc = "open"
    /\ s_i' = 0
    /\ CASE split_options.type = "all_pages_separately" ->
              /\ s_pc' = SplitLoopPc(0, source_pdf.pages, "page")
              /\ UNCHANGED <<parsed_page_segments, s_results>>
         [] split_options.type = "range" ->
              LET ranges_str == RangesStr(split_options)
                  parsed == ParsePageRanges(ranges_str, source_pdf.pages)
                  failure == RangeFailure(parsed, ranges_str)
              IN  /\ parsed_page_segments' = parsed
                  /\ IF failure # "none"
                     THEN /\ s_results' = Append(s_results,
                                                 SplitResult("failure", <<>>, <<>>, failure))
                          /\ s_pc' = "done"
                     ELSE /\ s_pc' = SplitLoopPc(0, Len(parsed), "group")
                          /\ UNCHANGED s_results
         [] OTHER ->
              /\ s_results' = Append(s_results,
                                     SplitResult("failure", <<>>, <<>>, "unknown_type"))
              /\ s_pc' = "done"
              /\ UNCHANGED parsed_page_segments
    /\ UNCHANGED <<source_pdf, split_options, s_config, s_dirs, s_files, s_failed>>
    /\ UNCHANGED NotSplit

\* lines 287-290: opening the source or reading one of its pages raises
\* (lines 218-220, 226, 263): one failure is appended and the function returns
SplitReadFails ==
    /\ s_pc \in {"open", "page", "group"}
    /\ s_results' = Append(s_results, SplitResult("failure", <<>>, <<>>, "error"))
    /\ s_failed' = [s_failed EXCEPT !.read = TRUE]
    /\ s_pc' = "done"
    /\ UNCHANGED <<source_pdf, split_options, s_config, s_dirs, s_files, s_i,
                   parsed_page_segments>>
    /\ UNCHANGED NotSplit

\* one output: create_output_path, then _write_pdf_with_tempfile, inside the
\* try of lines 231-236 and 272-277
SplitOutput(name, pages, mkdir_ok, outcome) ==
    LET r == CreateOutputPath(s_config, s_dirs, mkdir_ok)
        by_env == IF r.ok THEN outcome # "written"
                  ELSE CreateOutputPath(s_config, s_dirs, TRUE).ok
    IN  /\ by_env => s_failed.env < MaxFailures
        /\ s_dirs' = r.dirs
        /\ s_files' = IF r.ok THEN WriteFile(s_files, r.dir, name, pages, outcome)
                      ELSE s_files
        /\ s_results' = Append(s_results, OutputResult(r, outcome, name))
        /\ s_failed' = [s_failed EXCEPT
                           !.env = IF by_env THEN @ + 1 ELSE @,
                           !.outputs = IF r.ok /\ outcome = "written"
                                       THEN @ ELSE @ \cup {s_i + 1}]

\* lines 224-242: one page of all_pages_separately
SplitPage(mkdir_ok, outcome) ==
    /\ s_pc = "page"
    /\ SplitOutput(PageFilename(s_i + 1), <<s_i + 1>>, mkdir_ok, outcome)
    /\ s_i' = s_i + 1
    /\ s_pc' = SplitLoopPc(s_i', source_pdf.pages, "page")
    /\ UNCHANGED <<source_pdf, split_options, s_config, parsed_page_segments>>
    /\ UNCHANGED NotSplit

\* lines 256-283: one group of the range split
SplitGroup(mkdir_ok, outcome) ==
    /\ s_pc = "group"
    /\ LET page_selection_ == parsed_page_segments[s_i + 1]
       IN  IF page_selection_ = <<>>
           THEN UNCHANGED <<s_dirs, s_files, s_results, s_failed>>
           ELSE SplitOutput(RangeFilename(s_i, page_selection_,
                                          Len(parsed_page_segments)),
                            page_selection_, mkdir_ok, outcome)
    /\ s_i' = s_i + 1
    /\ s_pc' = SplitLoopPc(s_i', Len(parsed_page_segments), "group")
    /\ UNCHANGED <<source_pdf, split_options, s_config, parsed_page_segments>>
    /\ UNCHANGED NotSplit

SplitStep ==
    \/ SplitValidate
    \/ SplitOpen
    \/ SplitReadFails
    \/ \E mkdir_ok \in BOOLEAN, outcome \in WriteOutcomes : SplitPage(mkdir_ok, outcome)
    \/ \E mkdir_ok \in BOOLEAN, outcome \in WriteOutcomes : SplitGroup(mkdir_ok, outcome)

(***************************************************************************)
(* Calls of _parse_page_ranges on texts written from tokens.               *)
(***************************************************************************)
MaxTotalPages == 3

Token(kind, a, b, text) == [kind |-> kind, a |-> a, b |-> b, text |-> text]

\* page numbers written in the texts: one below and one above 1..MaxTotalPages
TokenNumbers == 0..(MaxTotalPages + 1)

\* tokens that are not integers, the empty and the blank token among them,
\* and two with capitals above ASCII ('\u0130' and '\u03a3')
TextTokens ==
    { <<>>, <<" ">>, <<"x">>, <<"1", "-", "x">>, <<"1", "-">>, <<"1", ".", "5">>,
      <<"1", "-", "2", "-", "3">>, <<"\n", "">>, <<"1", "", "-", "2">>,
      <<"1", Chr(304)>>, <<"E", "N", "D", Chr(931)>> }

Tokens ==
    {Token("page", a, 0, <<>>) : a \in TokenNumbers}
        \cup {Token("page_u", a, 0, <<>>) : a \in TokenNumbers}
        \cup {Token("range", a, b, <<>>) : a \in TokenNumbers, b \in TokenNumbers}
        \cup {Token("to_end", a, 0, <<>>) : a \in TokenNumbers}
        \cup {Token("to_END", a, 0, <<>>) : a \in TokenNumbers}
        \cup {Token("end", 0, 0, <<>>)}
        \cup {Token("text", 0, 0, t) : t \in TextTokens}

\* str(n) in the digits of another script (extended Arabic-Indic, '\u06f0'
\* to '\u06f9')
UStr(n) == [i \in 1..Len(Str(n)) |-> Chr(1776 + DigitVal(Str(n)[i]))]

\* the text of one token; to_END is "a-end" in upper case with white space,
\* page_u a page number in digits and white space above ASCII
TokenText(t) ==
    CASE t.kind = "page" -> Str(t.a)
      [] t.kind = "page_u" -> <<Chr(12288)>> \o UStr(t.a) \o <<Chr(5760), Chr(160)>>
      [] t.kind = "range" -> Str(t.a) \o <<"-">> \o Str(t.b)
      [] t.kind = "to_end" -> Str(t.a) \o <<"-", "e", "n", "d">>
      [] t.kind = "to_END" -> <<"\n">> \o Str(t.a) \o <<"\t", "-", "\r", "E", "N", "D", "", " ">>
      [] t.kind = "end" -> <<"e", "n", "d">>
      [] OTHER -> t.text

\* str.join
RECURSIVE Join(_, _)
Join(pieces, sep) ==
    IF pieces = <<>> THEN <<>>
    ELSE IF Len(pieces) = 1 THEN pieces[1]
    ELSE pieces[1] \o sep \o Join(Tail(pieces), sep)

SegmentText(seg) == Join([i \in 1..Len(seg) |-> TokenText(seg[i])], <<",">>)

SpecText(spec) == Join([i \in 1..Len(spec) |-> SegmentText(spec[i])], <<";">>)

\* "1-3,5;7-end", parsed against 10 pages
ExampleSpec ==
    << <<Token("range", 1, 3, <<>>), Token("page", 5, 0, <<>>)>>,
       <<Token("to_end", 7, 0, <<>>)>> >>

ExampleTotal == 10

\* one segment of up to two tokens, or two segments of up to one token
ParserSpecs ==
    {<<>>}
        \cup {<< <<t>> >> : t \in Tokens}
        \cup {<< <<t, u>> >> : t \in Tokens, u \in Tokens}
        \cup {<< <<t>>, <<u>> >> : t \in Tokens, u \in Tokens}
        \cup {<< <<>>, <<t>> >> : t \in Tokens}

\* the token is accepted: a range unless start <= 0, end < start or
\* end > total_pages; a page unless it is <= 0 or > total_pages
Accepted(t, total_pages) ==
    CASE t.kind \in {"page", "page_u"} -> ~(t.a <= 0 \/ t.a > total_pages)
      [] t.kind = "range" -> ~(t.a <= 0 \/ t.b < t.a \/ t.b > total_pages)
      [] t.kind \in {"to_end", "to_END"} -> ~(t.a <= 0 \/ total_pages < t.a)
      [] t.kind = "end" -> ~(total_pages <= 0)
      [] OTHER -> FALSE

\* the spec with only the tokens that are accepted
RECURSIVE KeepAccepted(_, _)
KeepAccepted(seg, total_pages) ==
    IF seg = <<>> THEN <<>>
    ELSE IF Accepted(Head(seg), total_pages)
         THEN <<Head(seg)>> \o KeepAccepted(Tail(seg), total_pages)
         ELSE KeepAccepted(Tail(seg), total_pages)

KeptSpec(spec, total_pages) ==
    [i \in 1..Len(spec) |-> KeepAccepted(spec[i], total_pages)]

ParseInit ==
    /\ \/ p_spec \in ParserSpecs /\ p_total \in 0..MaxTotalPages
       \/ p_spec = ExampleSpec /\ p_total = ExampleTotal
    /\ ranges_text = SpecText(p_spec)
    /\ p_pc = "call"
    /\ p_result = <<>>
    /\ p_kept = <<>>

\* no call of the parser is followed
ParseIdle ==
    /\ p_spec = <<>>
    /\ ranges_text = <<>>
    /\ p_total = 0
    /\ p_pc = "done"
    /\ p_result = <<>>
    /\ p_kept = <<>>

\* _parse_page_ranges(ranges_str, total_pages)
ParseCall ==
    /\ p_pc = "call"
    /\ p_result' = ParsePageRanges(ranges_text, p_total)
    /\ p_pc' = "again"
    /\ UNCHANGED <<p_spec, ranges_text, p_total, p_kept>>
    /\ UNCHANGED NotParse

\* the same call on the text written from the accepted tokens alone
ParseKept ==
    /\ p_pc = "again"
    /\ p_kept' = ParsePageRanges(SpecText(KeptSpec(p_spec, p_total)), p_total)
    /\ p_pc' = "done"
    /\ UNCHANGED <<p_spec, ranges_text, p_total, p_result>>
    /\ UNCHANGED NotParse

Parse == ParseCall \/ ParseKept

(***************************************************************************)
(* Repeated calls of create_output_path.                                   *)
(***************************************************************************)
MaxCalls == 2

PathConfigs ==
    {[mode |-> "source_dir", subfolder_name |-> NoKey, path |-> <<>>]}
        \cup {[mode |-> "new_subdir_in_source", subfolder_name |-> n, path |-> <<>>] :
                 n \in {NoKey, <<>>, <<" ">>, <<" ", "\t">>, <<"o">>, <<" ", "o", " ">>}}
        \cup {[mode |-> "custom_dir", subfolder_name |-> NoKey, path |-> q] :
                 q \in {<<>>, <<"c">>}}
        \cup {[mode |-> "other", subfolder_name |-> NoKey, path |-> <<>>]}

PathInit ==
    /\ d_config \in PathConfigs
    /\ target_filename \in {<<"a">>, <<"b">>}
    /\ d_dirs \in {{SrcDir} \cup extra :
                     extra \in SUBSET {<<"src", DefaultSubfolder>>, <<"src", <<"o">>>>,
                                       <<"custom", <<"c">>>>}}
    /\ d_calls = <<>>

\* create_output_path is not called on its own
PathIdle ==
    /\ d_config = [mode |-> "source_dir", subfolder_name |-> NoKey, path |-> <<>>]
    /\ target_filename = <<>>
    /\ d_dirs = {SrcDir}
    /\ d_calls = <<>>

\* one call of create_output_path (lines 77-112)
PathCall(mkdir_ok) ==
    /\ Len(d_calls) < MaxCalls
    /\ LET r == CreateOutputPath(d_config, d_dirs, mkdir_ok)
       IN  /\ d_dirs' = r.dirs
           /\ d_calls' = Append(d_calls,
                                [ok |-> r.ok,
                                 path |-> IF r.ok THEN <<r.dir, target_filename>> ELSE <<>>,
                                 mkdir_ok |-> mkdir_ok,
                                 before |-> d_dirs,
                                 after |-> r.dirs])
    /\ UNCHANGED <<d_config, target_filename>>
    /\ UNCHANGED NotPath

PathStep == \E mkdir_ok \in BOOLEAN : PathCall(mkdir_ok)

(***************************************************************************)
(* The main window: execute_action, the result handlers and the events of  *)
(* the file list and the tabs.  QApplication.processEvents() (line 917)    *)
(* handles the events that are pending, so other handlers of the UI thread *)
(* run between the two halves of execute_action.                           *)
(***************************************************************************)
MaxDropped == 2

\* most workers started in one behaviour
MaxWorkers == 2

WindowInit ==
    /\ dropped_files = 0
    /\ tab_index = 0
    /\ execute_btn = TRUE
    /\ pause_btn = FALSE
    /\ w_pc = "idle"
    /\ workers = <<>>
    /\ w_outcome = "none"
    /\ list_edits = 0

\* the UI thread handles an event: from its event loop, or from the
\* processEvents call of line 917
HandlesEvents == w_pc \in {"idle", "process_events"}

\* a worker has been started and its signal not been handled yet
Active(w) == w.state \in {"running", "emitted"}

ActiveWorkers == {i \in 1..Len(workers) : Active(workers[i])}

\* most changes of the file list followed while a function iterates it
MaxListEdits == 2

\* the names a file of the list can have
FileNames == 1..MaxDropped

\* what the path n holds: the file it held at the call when the list had
\* it then, any of fresh otherwise
OnDisk(n, at_call, fresh) ==
    IF \E k \in 1..Len(at_call) : at_call[k].name = n
    THEN {at_call[k] : k \in {j \in 1..Len(at_call) : at_call[j].name = n}}
    ELSE fresh

\* the files dropEvent can add to a list: those not in it (line 827)
NewFiles(files) ==
    UNION {OnDisk(n, called_with, {File(n, p) : p \in 0..MaxPages}) :
           n \in FileNames \ Names(files)}

NewInputs(files) ==
    UNION {OnDisk(n, m_init.inputs, {Input(n, kind) : kind \in MergeInputs}) :
           n \in FileNames \ Names(files)}

\* list.remove of the file at position i
Remove(files, i) == SubSeq(files, 1, i - 1) \o SubSeq(files, i + 1, Len(files))

\* a merge is under way on the list
Merging == m_pc # "done"

\* the list is being iterated, and one more change of it is counted
Iterated == Running \/ Merging

CountEdit ==
    /\ Iterated => list_edits < MaxListEdits
    /\ list_edits' = IF Iterated THEN list_edits + 1 ELSE list_edits

\* dropEvent (lines 822-838): a new PDF file is appended to dropped_files,
\* which is the list a running conversion or merge iterates
DropFile ==
    /\ HandlesEvents
    /\ dropped_files < MaxDropped
    /\ CountEdit
    /\ dropped_files' = dropped_files + 1
    /\ IF Running
       THEN \E f \in NewFiles(pdf_files) : pdf_files' = Append(pdf_files, f)
       ELSE UNCHANGED pdf_files
    /\ IF Merging
       THEN \E f \in NewInputs(input_pdf_paths) :
               input_pdf_paths' = Append(input_pdf_paths, f)
       ELSE UNCHANGED input_pdf_paths
    /\ UNCHANGED <<tab_index, execute_btn, pause_btn, w_pc, workers, w_outcome>>
    /\ UNCHANGED NotFileList

\* delete_selected_files (lines 847-859), one file selected
DeleteSelectedFile ==
    /\ HandlesEvents
    /\ dropped_files > 0
    /\ CountEdit
    /\ dropped_files' = dropped_files - 1
    /\ IF Running
       THEN \E i \in 1..Len(pdf_files) : pdf_files' = Remove(pdf_files, i)
       ELSE UNCHANGED pdf_files
    /\ IF Merging
       THEN \E i \in 1..Len(input_pdf_paths) :
               input_pdf_paths' = Remove(input_pdf_paths, i)
       ELSE UNCHANGED input_pdf_paths
    /\ UNCHANGED <<tab_index, execute_btn, pause_btn, w_pc, workers, w_outcome>>
    /\ UNCHANGED NotFileList

\* clear_file_list (lines 861-864)
ClearFileList ==
    /\ HandlesEvents
    /\ CountEdit
    /\ dropped_files' = 0
    /\ pdf_files' = IF Running THEN <<>> ELSE pdf_files
    /\ input_pdf_paths' = IF Merging THEN <<>> ELSE input_pdf_paths
    /\ UNCHANGED <<tab_index, execute_btn, pause_btn, w_pc, workers, w_outcome>>
    /\ UNCHANGED NotFileList

\* the handlers of the file list
FileList == DropFile \/ DeleteSelectedFile \/ ClearFileList

\* the window after execute_action has started a worker on a list of n
\* files (lines 934-938 and 987-996)
WindowStarted(task, n) ==
    /\ dropped_files = n
    /\ tab_index = (IF task = "merge" THEN 0 ELSE 2)
    /\ execute_btn = FALSE
    /\ pause_btn = (task = "convert")
    /\ w_pc = "idle"
    /\ workers = <<[task |-> task, state |-> "running"]>>
    /\ w_outcome = "started"
    /\ list_edits = 0

\* the user selects a tab
SelectTab(t) ==
    /\ HandlesEvents
    /\ tab_index' = t
    /\ UNCHANGED <<dropped_files, execute_btn, pause_btn, w_pc, workers, w_outcome>>
    /\ UNCHANGED NotWindow

\* execute_action, lines 904-917: a click on the enabled button; config_ok
\* is whether _get_output_config returns a configuration
ExecuteBegin(config_ok) ==
    /\ w_pc = "idle"
    /\ execute_btn
    /\ Len(workers) < MaxWorkers
    /\ IF dropped_files = 0
       THEN w_outcome' = "no_files" /\ UNCHANGED <<execute_btn, w_pc>>
       ELSE IF ~config_ok
            THEN w_outcome' = "no_config" /\ UNCHANGED <<execute_btn, w_pc>>
            ELSE /\ execute_btn' = FALSE
                 /\ w_pc' = "process_events"
                 /\ w_outcome' = "begun"
    /\ UNCHANGED <<dropped_files, tab_index, pause_btn, workers>>
    /\ UNCHANGED NotWindow

\* a validation return that enables the button again (lines 923-926, 950-954)
ReturnEnabled(outcome) ==
    /\ execute_btn' = TRUE
    /\ w_outcome' = outcome
    /\ UNCHANGED <<pause_btn, workers>>

\* lines 934-938, 956-960, 987-995: the worker is created and started
StartWorker(task) ==
    /\ workers' = Append(workers, [task |-> task, state |-> "running"])
    /\ pause_btn' = (task = "convert")
    /\ w_outcome' = "started"
    /\ UNCHANGED execute_btn

\* execute_action, lines 919-995, after processEvents has returned;
\* range_given is whether the split is by pages or its range text is not empty
ExecuteDispatch(range_given) ==
    /\ w_pc = "process_events"
    /\ w_pc' = "idle"
    /\ CASE tab_index = 0 ->
              IF dropped_files < 2 THEN ReturnEnabled("merge_needs_two")
              ELSE StartWorker("merge")
         [] tab_index = 1 ->
              IF dropped_files = 0
              THEN /\ w_outcome' = "split_no_files"
                   /\ UNCHANGED <<execute_btn, pause_btn, workers>>
              ELSE IF ~range_given THEN ReturnEnabled("split_no_range")
              ELSE StartWorker("split")
         [] tab_index = 2 -> StartWorker("convert")
    /\ UNCHANGED <<dropped_files, tab_index>>
    /\ UNCHANGED NotWindow

\* PdfWorker.run (lines 37-50): the task returns and finished is emitted, or
\* it raises and error is emitted; the signal is queued to the UI thread
WorkerEmits(sig) ==
    /\ \E i \in 1..Len(workers) :
          /\ workers[i].state = "running"
          /\ workers' = [workers EXCEPT ![i] = [task |-> @.task, state |-> "emitted"]]
    /\ w_outcome' = sig
    /\ UNCHANGED <<dropped_files, tab_index, execute_btn, pause_btn, w_pc>>
    /\ UNCHANGED NotWindow

\* handle_merge_result, handle_split_result, handle_convert_result and
\* handle_worker_error (lines 1003-1061)
HandleResult ==
    /\ HandlesEvents
    /\ \E i \in 1..Len(workers) :
          /\ workers[i].state = "emitted"
          /\ workers' = [workers EXCEPT ![i] = [task |-> @.task, state |-> "handled"]]
    /\ execute_btn' = TRUE
    /\ pause_btn' = FALSE
    /\ UNCHANGED <<dropped_files, tab_index, w_pc, w_outcome>>
    /\ UNCHANGED NotWindow

Window ==
    \/ FileList
    \/ \E t \in 0..2 : SelectTab(t)
    \/ \E config_ok \in BOOLEAN : ExecuteBegin(config_ok)
    \/ \E range_given \in BOOLEAN : ExecuteDispatch(range_given)
    \/ \E sig \in {"finished", "error"} : WorkerEmits(sig)
    \/ HandleResult

(***************************************************************************)
(* Specifications: a conversion under the calls of the UI thread, a merge, *)
(* a split, calls of the parser, calls of create_output_path, and the      *)
(* main window.  The handlers of the file list run while a conversion or a *)
(* merge iterates the list: the worker was given the list object itself    *)
(* (lines 934 and 987).                                                    *)
(***************************************************************************)
vars == <<cvars, mvars, svars, pvars, dvars, wvars>>

Init ==
    /\ ConvertInit /\ MergeIdle /\ SplitIdle /\ ParseIdle /\ PathIdle
    /\ WindowStarted("convert", Len(pdf_files))

Next == Worker \/ UI \/ FileList

Spec == Init /\ [][Next]_vars

\* the worker thread keeps running: every page render and every sleep of the
\* poll loop ends
FairSpec == Spec /\ WF_vars(Worker)

MergeSpecInit ==
    /\ MergeInit /\ ConvertIdle /\ SplitIdle /\ ParseIdle /\ PathIdle
    /\ WindowStarted("merge", Len(input_pdf_paths))

MergeNext == Merge \/ FileList

MergeSpec == MergeSpecInit /\ [][MergeNext]_vars

SplitSpecInit == SplitInit /\ ConvertIdle /\ MergeIdle /\ ParseIdle /\ PathIdle /\ WindowInit

SplitNext == SplitStep

SplitSpec == SplitSpecInit /\ [][SplitNext]_vars

ParseSpecInit == ParseInit /\ ConvertIdle /\ MergeIdle /\ SplitIdle /\ PathIdle /\ WindowInit

ParseNext == Parse

ParseSpec == ParseSpecInit /\ [][ParseNext]_vars

PathSpecInit == PathInit /\ ConvertIdle /\ MergeIdle /\ SplitIdle /\ ParseIdle /\ WindowInit

PathNext == PathStep

PathSpec == PathSpecInit /\ [][PathNext]_vars

WindowSpecInit ==
    WindowInit /\ ConvertIdle /\ MergeIdle /\ SplitIdle /\ ParseIdle /\ PathIdle

WindowNext == Window

WindowSpec == WindowSpecInit /\ [][WindowNext]_vars

(***************************************************************************)
(* Properties of the conversion.                                           *)
(***************************************************************************)
Last(s) == s[Len(s)]

\* the pages of file k in the order they were rendered
RECURSIVE RenderedOf(_, _)
RenderedOf(log, k) ==
    IF log = <<>> THEN <<>>
    ELSE IF Head(log)[1] = k
         THEN <<Head(log)[2]>> \o RenderedOf(Tail(log), k)
         ELSE RenderedOf(Tail(log), k)

\* the position of the file named n among the input files of the call; a
\* file that was not among them comes after them all
InputPos(n) ==
    IF n \in Names(called_with)
    THEN CHOOSE k \in 1..Len(called_with) : called_with[k].name = n
    ELSE Len(called_with) + 1

\* C1: when stop() is called while file k is processed and a selected page
\* of k has not yet passed its page-boundary check, the function returns a
\* sequence whose last entry is 'cancelled' for file k, with no entry for a
\* later file, and no page is started after the check that sees the stop.
C1_CancelMidFile ==
    (pc = "done" /\ stop_info.called /\ stop_info.file # 0 /\ stop_info.unchecked)
    => /\ signal = "finished"
       /\ returned # <<>>
       /\ Last(returned) = Result("cancelled", stop_info.file)
       /\ \A i \in 1..Len(returned) :
            InputPos(returned[i].file_path) <= InputPos(stop_info.file)
       /\ Len(rendered) <= stop_info.nrend + (IF stop_info.inflight THEN 1 ELSE 0)

\* C2: while the pause flag stays set and stop() has not been called, at most
\* one page render is begun after pause() set the flag.
C2_PauseBlocksRendering ==
    (is_paused /\ ~should_stop) => paused_renders <= 1

\* the worker sits in the poll loop after finishing the page that was in flight
C2_Witness ==
    is_paused /\ ~should_stop /\ paused_renders = 1 /\ pc = "cp_sleep"

\* C3: when stop() is called while the worker is blocked in the poll loop, the
\* stop flag is set, no further page is rendered, the in-flight file is marked
\* 'cancelled' and the results accumulated so far are returned.
C3_StopWhileBlocked ==
    (pc = "done" /\ stop_info.called /\ stop_info.blocked)
    => /\ should_stop
       /\ Len(rendered) = stop_info.nrend
       /\ signal = "finished"
       /\ returned = results
       /\ returned # <<>>
       /\ Last(returned) = Result("cancelled", stop_info.file)

\* the liveness part of C3, under FairSpec: a worker stopped while it polls
\* ends
StopWhileBlockedEnds == (stop_info.called /\ stop_info.blocked) ~> (pc = "done")

\* the liveness part of C4, under FairSpec: a worker resumed from the poll
\* loop ends unless pause() or stop() is called again
ResumedEnds == resumed_clean ~> (pc = "done" \/ ~resumed_clean)

\* weak fairness of the worker thread, written without ENABLED: a step of
\* Worker is possible exactly while pc # "done"
WorkerFair == ([]<>(pc = "done")) \/ ([]<><<Worker>>_vars)

\* StopWhileBlockedEnds for every behaviour of Spec in which the worker
\* thread keeps being scheduled
StopWhileBlockedEndsFair == WorkerFair => StopWhileBlockedEnds

\* ResumedEnds for every behaviour of Spec in which the worker thread keeps
\* being scheduled
ResumedEndsFair == WorkerFair => ResumedEnds

\* C4: after a resume() that found the worker in the poll loop, with no later
\* pause() or stop(), the task ends with the finished signal, every file has
\* its result, and every selected page of a converted file was rendered once.
C4_ResumeCompletes ==
    (pc = "done" /\ resumed_clean)
    => /\ signal = "finished"
       /\ Len(returned) = Len(called_with)
       /\ \A k \in 1..Len(called_with) :
            returned[k].status = "success"
            => RenderedOf(rendered, called_with[k].name) =
                  PageSelection(page_range_str, called_with[k].pages)

\* C5: when stop() is never called the function returns one result per input
\* file, in input order, each 'success' or 'failure'.
C5_OneResultPerFile ==
    (pc = "done" /\ ~should_stop)
    => /\ signal = "finished"
       /\ Len(returned) = Len(called_with)
       /\ \A k \in 1..Len(called_with) :
            /\ returned[k].file_path = called_with[k].name
            /\ returned[k].status \in {"success", "failure"}

\* C6: pages are rendered in strictly ascending order within a file, each
\* at most once, files in input order, and a page of a file is rendered only
\* when every earlier input file has its result.
C6_RenderOrder ==
    /\ \A i, j \in 1..Len(rendered) :
         i < j => IF rendered[i][1] = rendered[j][1]
                  THEN rendered[i][2] < rendered[j][2]
                  ELSE InputPos(rendered[i][1]) <= InputPos(rendered[j][1])
    /\ \A i \in 1..Len(rendered) :
         /\ InputPos(rendered[i][1]) <= InputPos(pdf_path.name)
         /\ \A k \in 1..Len(called_with) :
              k < InputPos(rendered[i][1])
              => \E r \in 1..Len(results) : results[r].file_path = called_with[k].name

\* C7: the progress values emitted by one conversion never decrease.
C7_ProgressMonotone ==
    \A i, j \in 1..Len(progress_log) : i < j => progress_log[i] <= progress_log[j]

\* page-level and file-level values were emitted for a failed and a converted file
C7_Witness ==
    /\ Len(progress_log) >= 4
    /\ \E k \in 1..Len(results) : results[k].status = "failure"
    /\ \E k \in 1..Len(results) : results[k].status = "success"

(***************************************************************************)
(* Properties of the merge.                                                *)
(***************************************************************************)
RECURSIVE PagesBefore(_, _)
\* the number of pages of the inputs before the k-th
PagesBefore(inputs, k) ==
    IF k <= 1 THEN 0 ELSE PagesBefore(inputs, k - 1) + inputs[k - 1].pages

\* C8: the output path never holds a partially written file, the temporary
\* file is gone when merge returns, and a failed merge leaves the output
\* path as it was.
C8_AtomicOutput ==
    /\ out_file.state # "partial"
    /\ m_pc = "done" => temp_file = "absent"
    /\ (m_pc = "done" /\ merge_result = "failure") => out_file = m_init.out_file

\* C9: a successful merge leaves at the output path a document of sum(pi)
\* pages: page i of input k is page p1 + ... + p(k-1) + i of the output.
\* The inputs are those the merge was called with.
C9_MergedPages ==
    merge_result = "success"
    => /\ out_file.state = "merged"
       /\ Len(out_file.pages) = PagesBefore(m_init.inputs, Len(m_init.inputs) + 1)
       /\ \A k \in 1..Len(m_init.inputs) :
            \A i \in 1..m_init.inputs[k].pages :
               out_file.pages[PagesBefore(m_init.inputs, k) + i] =
                   <<m_init.inputs[k].name, i>>

\* C10: with no input, or with an input that is not a valid PDF, merge
\* returns 'failure' and creates no temporary file, no output file and no
\* directory.
C10_BadInputNoEffect ==
    (m_init.inputs = <<>> \/ \E k \in 1..Len(m_init.inputs) : ~m_init.inputs[k].valid)
    => /\ temp_file = "absent"
       /\ ~m_init.temp_created
       /\ out_file = m_init.out_file
       /\ fs_dirs = m_init.fs_dirs
       /\ m_pc = "done" => merge_result = "failure"

(***************************************************************************)
(* Properties of the split.                                                *)
(***************************************************************************)
\* the split has returned without an exception from reading the source
SplitReturned == s_pc = "done" /\ source_pdf.valid /\ ~s_failed.read

\* the range split found no group to write
ZeroGroups ==
    /\ SplitReturned
    /\ split_options.type = "range"
    /\ ParsePageRanges(RangesStr(split_options), source_pdf.pages) = <<>>

\* C11 as stated: a range split whose text yields zero groups returns
\* exactly one 'failure' and writes no file, with 'no ranges provided' when
\* the text is blank (empty or whitespace-only) and 'cannot parse ranges'
\* otherwise.
C11_BlankRanges ==
    ZeroGroups =>
        /\ s_files = {}
        /\ s_results =
             <<SplitResult("failure", <<>>, <<>>,
                           IF Strip(RangesStr(split_options)) = <<>>
                           THEN "no_ranges" ELSE "cannot_parse")>>

\* C11 amended: a range split whose text yields zero groups returns exactly
\* one 'failure' and writes no file, with 'no ranges provided' when the
\* text is the empty string (or absent) and 'cannot parse ranges' for every
\* other text, a whitespace-only one included.
C11_EmptyRanges ==
    ZeroGroups =>
        /\ s_files = {}
        /\ s_results =
             <<SplitResult("failure", <<>>, <<>>,
                           IF RangesStr(split_options) = <<>>
                           THEN "no_ranges" ELSE "cannot_parse")>>

C11_Witness ==
    /\ ZeroGroups
    /\ split_options.ranges_str = <<" ">>
    /\ s_results = <<SplitResult("failure", <<>>, <<>>, "cannot_parse")>>

\* name is <basename>_page_<i><ext> with i in decimal, no leading zero
IsPageName(name, i) ==
    LET pre == BaseName \o <<"_", "p", "a", "g", "e", "_">>
        mid == SubSeq(name, Len(pre) + 1, Len(name) - Len(Ext))
    IN  /\ IsPrefix(pre, name)
        /\ Len(name) > Len(pre) + Len(Ext)
        /\ SubSeq(name, Len(name) - Len(Ext) + 1, Len(name)) = Ext
        /\ \A j \in 1..Len(mid) : IsDigit(mid[j])
        /\ mid[1] # "0"
        /\ DigitsVal(mid, 0, FALSE) = i

\* a complete file with these pages is at dir/name
Written(dir, name, pages) ==
    [dir |-> dir, name |-> name, state |-> "complete", pages |-> pages] \in s_files

\* C12: a split of a valid P-page document into single pages returns
\* exactly P results in page order, the i-th naming <basename>_page_<i><ext>
\* with i unpadded; and when no output fails, the i-th is a success whose
\* file holds exactly page i.
C12_AllPages ==
    (SplitReturned /\ split_options.type = "all_pages_separately") =>
        /\ Len(s_results) = source_pdf.pages
        /\ \A i \in 1..Len(s_results) :
              /\ IsPageName(s_results[i].file_path.name, i)
              /\ s_failed.outputs = {} =>
                    /\ s_results[i].status = "success"
                    /\ Written(s_results[i].file_path.dir,
                               s_results[i].file_path.name, <<i>>)

C12_Witness ==
    /\ SplitReturned
    /\ split_options.type = "all_pages_separately"
    /\ source_pdf.pages >= 10
    /\ s_failed.outputs = {}
    /\ s_results[10].status = "success"
    /\ s_results[10].file_path.name =
         <<"d", "_", "p", "a", "g", "e", "_", "1", "0", ".", "p", "d", "f">>

\* the number of outputs the split has to write
OutputCount ==
    IF split_options.type = "all_pages_separately" THEN source_pdf.pages
    ELSE Len(parsed_page_segments)

\* the name and the pages of the k-th output
OutputName(k) ==
    IF split_options.type = "all_pages_separately" THEN PageFilename(k)
    ELSE RangeFilename(k - 1, parsed_page_segments[k], Len(parsed_page_segments))

OutputPages(k) ==
    IF split_options.type = "all_pages_separately" THEN <<k>>
    ELSE parsed_page_segments[k]

\* C13: in both modes, when resolving the path of or writing an output
\* fails, that output and no other gets a 'failure' result; every other
\* output is written and gets a 'success', and there is one result for each
\* page or parsed group.
C13_FailureIsolated ==
    (/\ SplitReturned
     /\ split_options.type \in {"all_pages_separately", "range"}
     /\ ~ZeroGroups) =>
        /\ Len(s_results) = OutputCount
        /\ \A k \in 1..Len(s_results) :
              IF k \in s_failed.outputs
              THEN s_results[k] = SplitResult("failure", <<>>, OutputName(k), "exception")
              ELSE /\ s_results[k].status = "success"
                   /\ s_results[k].file_path.name = OutputName(k)
                   /\ Written(s_results[k].file_path.dir, OutputName(k), OutputPages(k))

C13_Witness ==
    /\ SplitReturned
    /\ Len(s_results) >= 3
    /\ s_failed.outputs = {2}
    /\ s_results[1].status = "success"
    /\ s_results[2].status = "failure"
    /\ s_results[3].status = "success"

(***************************************************************************)
(* Properties of the parser.                                               *)
(***************************************************************************)
\* the pages a token covers, with "end" resolved to total_pages
Covered(t, total_pages) ==
    CASE t.kind \in {"page", "page_u"} -> {t.a}
      [] t.kind = "range" -> t.a..t.b
      [] t.kind \in {"to_end", "to_END"} -> t.a..total_pages
      [] t.kind = "end" -> {total_pages}
      [] OTHER -> {}

AcceptedIn(seg, total_pages) ==
    {j \in 1..Len(seg) : Accepted(seg[j], total_pages)}

\* the pages covered by the accepted tokens of a segment
SegmentCover(seg, total_pages) ==
    UNION {Covered(seg[j], total_pages) : j \in AcceptedIn(seg, total_pages)}

\* the positions of the segments with an accepted token, in order
RECURSIVE AcceptingFrom(_, _, _)
AcceptingFrom(spec, i, total_pages) ==
    IF i > Len(spec) THEN <<>>
    ELSE IF AcceptedIn(spec[i], total_pages) # {}
         THEN <<i>> \o AcceptingFrom(spec, i + 1, total_pages)
         ELSE AcceptingFrom(spec, i + 1, total_pages)

\* g lists exactly the members of S, strictly ascending
IsGroupOf(g, S) ==
    /\ {g[j] : j \in 1..Len(g)} = S
    /\ \A j \in 1..(Len(g) - 1) : g[j] < g[j + 1]

ExampleText == <<"1", "-", "3", ",", "5", ";", "7", "-", "e", "n", "d">>

\* C14: the parser returns, in segment order, one group for each segment
\* with an accepted token; a group is non-empty, strictly ascending and
\* free of duplicates, and holds exactly the pages covered by the accepted
\* tokens of its segment, all in 1..total_pages; parsing "1-3,5;7-end"
\* against 10 pages gives [[1,2,3,5],[7,8,9,10]].
C14_Groups ==
    p_pc # "call" =>
        LET segs == AcceptingFrom(p_spec, 1, p_total)
        IN  /\ Len(p_result) = Len(segs)
            /\ \A k \in 1..Len(p_result) :
                  /\ p_result[k] # <<>>
                  /\ IsGroupOf(p_result[k], SegmentCover(p_spec[segs[k]], p_total))
                  /\ \A j \in 1..Len(p_result[k]) : p_result[k][j] \in 1..p_total
            /\ (ranges_text = ExampleText /\ p_total = 10) =>
                  p_result = << <<1, 2, 3, 5>>, <<7, 8, 9, 10>> >>

C14_Witness ==
    /\ p_pc # "call"
    /\ ranges_text = ExampleText
    /\ p_total = 10
    /\ p_result = << <<1, 2, 3, 5>>, <<7, 8, 9, 10>> >>

\* C15: a range token is rejected exactly when start <= 0, end < start or
\* end > total_pages, a single-page token exactly when it is <= 0 or
\* > total_pages, and a token that is not integers always (a text of one
\* token parses to nothing exactly when the token is rejected); a rejected
\* token takes no page of another token away (the text without the
\* rejected tokens parses to the same groups); a blank text parses to the
\* empty sequence.
C15_Rejection ==
    /\ (p_pc # "call" /\ Len(p_spec) = 1 /\ Len(p_spec[1]) = 1) =>
          (p_result = <<>> <=> ~Accepted(p_spec[1][1], p_total))
    /\ (p_pc # "call" /\ Strip(ranges_text) = <<>>) => p_result = <<>>
    /\ p_pc = "done" => p_kept = p_result

C15_Witness ==
    /\ p_pc = "done"
    /\ Len(p_spec) = 1
    /\ Len(p_spec[1]) = 2
    /\ p_spec[1][1].kind = "range"
    /\ ~Accepted(p_spec[1][1], p_total)
    /\ p_spec[1][2].kind = "page"
    /\ p_result = <<<<p_spec[1][2].a>>>>

(***************************************************************************)
(* The custom directory of the three operations.                           *)
(***************************************************************************)
\* merge: the custom directory did not exist at the call
MergeCustomMissing ==
    /\ output_dir_config.mode = "custom_dir"
    /\ TargetDir(output_dir_config) \notin m_init.fs_dirs

\* merge fails without creating the directory or writing the output
C16_Merge ==
    MergeCustomMissing =>
        /\ TargetDir(output_dir_config) \notin fs_dirs
        /\ out_file = AbsentFile
        /\ merge_result \in {"none", "failure"}

\* split: the custom directory does not exist
SplitCustomMissing ==
    /\ s_config.mode = "custom_dir"
    /\ TargetDir(s_config) \notin s_dirs

\* every output of the split fails and nothing is written
C16_Split ==
    SplitCustomMissing =>
        /\ s_files = {}
        /\ \A k \in 1..Len(s_results) : s_results[k].status = "failure"

\* convert: the custom directory did not exist at the call
ConvertCustomMissing ==
    /\ save_option = "custom_dir"
    /\ <<"custom", output_dir>> \notin (c_dirs \ made_dirs)

\* every file of the conversion fails, the directory is not created and no
\* page is rendered into it
C16_Convert ==
    ConvertCustomMissing =>
        /\ <<"custom", output_dir>> \notin c_dirs
        /\ rendered = <<>>
        /\ \A k \in 1..Len(results) : results[k].status # "success"

\* C16: for merge, split and convert, when the policy is CustomDir(path)
\* and path is not an existing directory when the output path is resolved,
\* the resolution fails: the file or operation gets a 'failure', the
\* directory is not created and no output is written under it.
C16_CustomDirMissing == C16_Merge /\ C16_Split /\ C16_Convert

(***************************************************************************)
(* Properties of create_output_path.                                       *)
(***************************************************************************)
\* the subfolder name of the configuration is absent, empty or blank
BlankSubfolder(config) ==
    config.subfolder_name = NoKey \/ Strip(config.subfolder_name) = <<>>

\* C17: for SourceDir and NewSubdirInSource, a call of create_output_path
\* succeeds (unless mkdir itself is refused), and a call after a successful
\* one with the same arguments succeeds too, returns the same path and
\* leaves the directories as they were; a blank subfolder name resolves to
\* the default name.
C17_Idempotent ==
    d_config.mode \in {"source_dir", "new_subdir_in_source"} =>
        /\ \A i \in 1..Len(d_calls) : d_calls[i].mkdir_ok => d_calls[i].ok
        /\ \A i \in 2..Len(d_calls) :
              d_calls[i - 1].ok =>
                  /\ d_calls[i].ok
                  /\ d_calls[i].path = d_calls[i - 1].path
                  /\ d_calls[i].after = d_calls[i].before
        /\ \A i \in 1..Len(d_calls) :
              (/\ d_config.mode = "new_subdir_in_source"
               /\ BlankSubfolder(d_config)
               /\ d_calls[i].ok) =>
                  d_calls[i].path = <<<<"src", DefaultSubfolder>>, target_filename>>

C17_Witness ==
    /\ d_config.mode = "new_subdir_in_source"
    /\ d_config.subfolder_name = <<" ">>
    /\ Len(d_calls) = 2
    /\ d_calls[1].before = {SrcDir}
    /\ d_calls[1].after = {SrcDir, <<"src", DefaultSubfolder>>}
    /\ d_calls[2].ok
    /\ d_calls[2].path = d_calls[1].path

(***************************************************************************)
(* Progress and document handles of the conversion.                        *)
(***************************************************************************)
\* C18: when a file of the conversion has finished, with a success or a
\* failure (the failure of an empty page selection included), the last
\* progress value emitted before the next file starts is the file-level
\* value floor(100 * (position + 1) / total_files) of the finished file.
C18_FileProgress ==
    (pc = "file_check" /\ file_idx > 0) =>
        /\ progress_log # <<>>
        /\ Last(progress_log) = (100 * file_idx) \div total_files

\* C19: the document opened for a file is closed before the next file is
\* opened and before the function returns, on every path; no document is
\* open once convert has returned.
C19_DocClosed ==
    pc \in {"open", "return", "done"} =>
        \A k \in 1..Len(handles) : handles[k] # "open"

(***************************************************************************)
(* Properties of the main window.                                          *)
(***************************************************************************)
\* C20: at most one PdfWorker is running at any time: from the start of a
\* worker until its finished or error signal has been handled the execute
\* button is disabled, so that execute_action cannot start another; and
\* after every outcome (a handled result or error, or a validation return
\* of execute_action) the execute button is enabled again.
C20_OneWorker ==
    /\ Cardinality(ActiveWorkers) <= 1
    /\ ActiveWorkers # {} => ~execute_btn
    /\ (w_pc = "idle" /\ ActiveWorkers = {}) => execute_btn

\* the first part of C20 alone: one worker at a time, the button disabled
\* while it is active
OneWorkerAtATime ==
    /\ Cardinality(ActiveWorkers) <= 1
    /\ ActiveWorkers # {} => ~execute_btn

(***************************************************************************)
(* The result sequence, the signals and the close() calls of a conversion. *)
(***************************************************************************)
\* C21: in a result sequence returned by the conversion, under any
\* interleaving of pause(), resume() and stop(), at most one entry is
\* 'cancelled' and it is the last one; the entries before it are 'success'
\* or 'failure', and the entries name input files in input order, each
\* file at most once.
C21_CancelledLast ==
    signal = "finished" =>
        /\ returned = results
        /\ \A i \in 1..Len(returned) :
              /\ returned[i].status \in {"success", "failure", "cancelled"}
              /\ returned[i].status = "cancelled" => i = Len(returned)
              /\ returned[i].file_path \in Names(called_with)
        /\ \A i \in 1..(Len(returned) - 1) :
              InputPos(returned[i].file_path) < InputPos(returned[i + 1].file_path)

\* a 'cancelled' entry has been recorded
Cancelled == \E i \in 1..Len(results) : results[i].status = "cancelled"

\* C22: a run of the worker that has terminated, under any interleaving of
\* pause(), resume() and stop(), has emitted exactly one of finished and
\* error; a cancelled conversion delivers the result sequence it has
\* accumulated through finished, not through error.
C22_OneSignal ==
    /\ pc = "done" <=> signal \in {"finished", "error"}
    /\ (pc = "done" /\ Cancelled) => (signal = "finished" /\ returned = results)

\* the signal is emitted once: it never changes after it was emitted
EmittedOnce == [][signal # "none" => signal' = signal]_vars

\* C23: close() is invoked at most once on each document handle, on every
\* exit path: success, exception, cancellation at a page boundary, and a
\* later file that fails to open while the handle of the previous file is
\* still bound to the local variable.
C23_CloseOnce ==
    \A k \in 1..Len(close_calls) : close_calls[k] <= 1

\* the finally block has run twice with one handle bound to doc: it closed
\* the handle after the file was converted, and after a later file failed to
\* open its test of the closed handle raised, before the second close()
C23_Witness ==
    /\ pc = "done"
    /\ signal = "error"
    /\ total_files > 0
    /\ ~Cancelled
    /\ doc # 0
    /\ handles[doc] = "closed"
    /\ close_calls[doc] = 1
    /\ Len(results) > Len(handles)

=============================================================================
